---- MODULE Spec2Model ----
(***************************************************************************)
(* Statement ingestion and transaction normalisation of ufincorp-colombia. *)
(*                                                                         *)
(* Texts are sequences of one-character strings, so that toUpperCase,      *)
(* includes, trim, split and parseFloat are computed character by          *)
(* character.  Numbers are records [nan, v]: v counts 1/Unit units, and    *)
(* nan marks JavaScript's NaN.                                             *)
(***************************************************************************)
EXTENDS Integers, Sequences, FiniteSets, TLC

\* ------------------------------------------------------------------ bounds

\* Fraction digits kept by the fixed-point representation of a number.
MaxDecimals == 1

Unit == 10 ^ MaxDecimals

\* ------------------------------------------------------------------ numbers

NaN == [nan |-> TRUE, v |-> 0]

Num(n) == [nan |-> FALSE, v |-> n]

\* A whole number of units.
Whole(n) == Num(n * Unit)

IsNaN(x) == x.nan

\* Math.abs
MathAbs(x) == IF x.nan THEN NaN ELSE Num(IF x.v < 0 THEN -x.v ELSE x.v)

\* x * rate, rate a whole number
Times(x, rate) == IF x.nan THEN NaN ELSE Num(x.v * rate)

\* x > 0 (false for NaN)
GtZero(x) == ~x.nan /\ x.v > 0

\* x >= 0 (false for NaN)
GeZero(x) == ~x.nan /\ x.v >= 0

\* ------------------------------------------------------------------ texts

Digits == {"0", "1", "2", "3", "4", "5", "6", "7", "8", "9"}

DigitVal(c) ==
  CASE c = "0" -> 0 [] c = "1" -> 1 [] c = "2" -> 2 [] c = "3" -> 3
    [] c = "4" -> 4 [] c = "5" -> 5 [] c = "6" -> 6 [] c = "7" -> 7
    [] c = "8" -> 8 [] c = "9" -> 9

WhiteSpace == {" ", "\t", "\r"}

RECURSIVE TrimStart(_)
TrimStart(s) ==
  IF s # <<>> /\ Head(s) \in WhiteSpace THEN TrimStart(Tail(s)) ELSE s

RECURSIVE TrimEnd(_)
TrimEnd(s) ==
  IF s # <<>> /\ s[Len(s)] \in WhiteSpace
  THEN TrimEnd(SubSeq(s, 1, Len(s) - 1))
  ELSE s

\* String.prototype.trim
Trim(s) == TrimEnd(TrimStart(s))

LowerLetters ==
  <<"a", "b", "c", "d", "e", "f", "g", "h", "i", "j", "k", "l", "m", "n", "o", "p",
    "q", "r", "s", "t", "u", "v", "w", "x", "y", "z", "é", "ó">>

UpperLetters ==
  <<"A", "B", "C", "D", "E", "F", "G", "H", "I", "J", "K", "L", "M", "N", "O", "P",
    "Q", "R", "S", "T", "U", "V", "W", "X", "Y", "Z", "É", "Ó">>

UpperChar(c) ==
  IF \E k \in 1..Len(LowerLetters) : LowerLetters[k] = c
  THEN UpperLetters[CHOOSE k \in 1..Len(LowerLetters) : LowerLetters[k] = c]
  ELSE c

LowerChar(c) ==
  IF \E k \in 1..Len(UpperLetters) : UpperLetters[k] = c
  THEN LowerLetters[CHOOSE k \in 1..Len(UpperLetters) : UpperLetters[k] = c]
  ELSE c

\* String.prototype.toUpperCase
ToUpperCase(s) == [i \in 1..Len(s) |-> UpperChar(s[i])]

\* String.prototype.toLowerCase
ToLowerCase(s) == [i \in 1..Len(s) |-> LowerChar(s[i])]

\* String.prototype.includes
Includes(hay, needle) ==
  \E i \in 0..(Len(hay) - Len(needle)) :
    SubSeq(hay, i + 1, i + Len(needle)) = needle

\* String.prototype.startsWith
StartsWith(s, p) == Len(s) >= Len(p) /\ SubSeq(s, 1, Len(p)) = p

\* s.replace(/[^...]/g, ""): keep the characters of the set
RECURSIVE Strip(_, _)
Strip(s, keep) ==
  IF s = <<>> THEN <<>>
  ELSE IF Head(s) \in keep THEN <<Head(s)>> \o Strip(Tail(s), keep)
  ELSE Strip(Tail(s), keep)

\* s.replace(/[...]/g, ""): drop the characters of the set
RECURSIVE Remove(_, _)
Remove(s, drop) ==
  IF s = <<>> THEN <<>>
  ELSE IF Head(s) \in drop THEN Remove(Tail(s), drop)
  ELSE <<Head(s)>> \o Remove(Tail(s), drop)

\* length of the run of digits of s that starts at position i
RECURSIVE DigitRun(_, _)
DigitRun(s, i) ==
  IF i <= Len(s) /\ s[i] \in Digits THEN 1 + DigitRun(s, i + 1) ELSE 0

\* value of the n digits of s that start at position i
RECURSIVE DigitsValue(_, _, _)
DigitsValue(s, i, n) ==
  IF n = 0 THEN 0
  ELSE DigitsValue(s, i, n - 1) * 10 + DigitVal(s[i + n - 1])

\* value, in 1/Unit, of the fraction digits of s that start at position i:
\* the first MaxDecimals of them, the rest is below the representation
FractionValue(s, i, n) ==
  IF n >= MaxDecimals
  THEN DigitsValue(s, i, MaxDecimals)
  ELSE DigitsValue(s, i, n) * (10 ^ (MaxDecimals - n))

\* parseFloat: optional white space, optional sign, digits, optional point and
\* digits; the longest such prefix, NaN when it holds no digit
ParseFloat(str) ==
  LET s == TrimStart(str)
      signed == s # <<>> /\ s[1] \in {"-", "+"}
      neg == s # <<>> /\ s[1] = "-"
      i == IF signed THEN 2 ELSE 1
      n == DigitRun(s, i)
      point == i + n <= Len(s) /\ s[i + n] = "."
      m == IF point THEN DigitRun(s, i + n + 1) ELSE 0
      mag == DigitsValue(s, i, n) * Unit + FractionValue(s, i + n + 1, m)
  IN  IF n = 0 /\ m = 0 THEN NaN
      ELSE Num(IF neg THEN -mag ELSE mag)

\* ------------------------------------------------------------------ values

\* undefined / null of a text-valued field or variable
Undefined == <<"undefined">>

\* undefined / null of a label-valued field (category, counterparty)
NoValue == "<undefined>"

\* !x for a text
Falsy(x) == x = Undefined \/ x = <<>>

\* !x for a label
FalsyLabel(x) == x = NoValue \/ x = ""

\* x || d
OrElse(x, d) == IF Falsy(x) THEN d ELSE x

\* x || d, labels
OrElseLabel(x, d) == IF FalsyLabel(x) THEN d ELSE x

COP == <<"C", "O", "P">>

USD == <<"U", "S", "D">>

AED == <<"A", "E", "D">>

XYZ == <<"X", "Y", "Z">>

\* the two values of tipo
TipoIn == <<"i", "n">>

TipoOut == <<"o", "u", "t">>

CATEGORIAS ==
  {"FULFILLMENT", "REV_DROPI_COD", "WITHDRAWALS", "ADS_FACEBOOK", "SOFTWARE_TOOLS",
   "INTERNAL_TRANSFER", "INVENTORY", "OPERATIONAL", "OTHER"}

\* FX_RATES: the currencies of the table
FxCurrencies == {USD, AED, COP}

\* FX_RATES[moneda], for a currency of the table
FX_RATES(moneda) ==
  CASE moneda = USD -> 4100
    [] moneda = AED -> 1120
    [] moneda = COP -> 1

\* ------------------------------------------------------------------ rules

\* categorization_rules: the rows in insertion order
\*   [keyword, categoria, contrapartida, priority, active]
VARIABLE rules

\* the sequences that list every element of 1..n once
Perms(n) ==
  {p \in [1..n -> 1..n] : \A i, j \in 1..n : i # j => p[i] # p[j]}

\* indices of the active rules, in insertion order
RECURSIVE ActiveIdx(_, _)
ActiveIdx(rs, i) ==
  IF i > Len(rs) THEN <<>>
  ELSE (IF rs[i].active THEN <<i>> ELSE <<>>) \o ActiveIdx(rs, i + 1)

\* .eq("active", true).order("priority", {ascending: false}): every order of
\* the active rows that is descending in priority; rows of equal priority come
\* in an order the store does not define
RuleQueries(rs) ==
  LET act == ActiveIdx(rs, 1)
      n == Len(act)
  IN  {[i \in 1..n |-> rs[act[p[i]]]] : p \in
         {p \in Perms(n) :
            \A i, j \in 1..n :
              i < j => rs[act[p[i]]].priority >= rs[act[p[j]]].priority}}

\* upperDesc.includes(rule.keyword.toUpperCase())
RuleMatches(rule, descripcion) ==
  Includes(ToUpperCase(descripcion), ToUpperCase(rule.keyword))

\* a loop over the rules that finds no match
FirstMatchNone(q, descripcion) == 0

\* the for loop over the rules: the first rule that matches, 0 when none does
FirstMatch(q, descripcion) ==
  IF \E i \in 1..Len(q) : RuleMatches(q[i], descripcion)
  THEN CHOOSE i \in 1..Len(q) :
         /\ RuleMatches(q[i], descripcion)
         /\ \A j \in 1..(i - 1) : ~RuleMatches(q[j], descripcion)
  ELSE 0

\* classifyTransaction reaches its fetch of the external classifier
CallsClassifier(descripcion, q) == FirstMatch(q, descripcion) = 0

\* replies of the external classifier to one request
AiOutcomes ==
  {[kind |-> "unreachable"], [kind |-> "malformed"]}
  \cup {[kind |-> "status", status |-> s] : s \in {"429", "402", "500"}}
  \cup {[kind |-> "json", categoria |-> c, contrapartida |-> "ACME"] :
          c \in {"ADS_FACEBOOK", "GROCERIES", NoValue}}

Returned(categoria, contrapartida) ==
  [kind |-> "return", categoria |-> categoria, contrapartida |-> contrapartida]

Thrown == [kind |-> "throw", categoria |-> NoValue, contrapartida |-> NoValue]

\* classifyTransaction of parse-transactions: q is the reply of the rule
\* query, ai the reply of the external classifier
classifyTransaction(descripcion, q, ai) ==
  LET m == FirstMatch(q, descripcion)
  IN  IF m # 0
      THEN Returned(q[m].categoria, OrElseLabel(q[m].contrapartida, "UNKNOWN"))
      ELSE CASE ai.kind = "unreachable" -> Thrown
             [] ai.kind = "status" -> Returned("OTHER", "UNKNOWN")
             [] ai.kind = "malformed" -> Thrown
             [] ai.kind = "json" -> Returned(ai.categoria, ai.contrapartida)

\* ------------------------------------------------------------------ parse-transactions

\* line.split(separator): the pieces between the separators
RECURSIVE Split(_, _, _)
Split(s, separator, current) ==
  IF s = <<>> THEN <<current>>
  ELSE IF Head(s) = separator
       THEN <<current>> \o Split(Tail(s), separator, <<>>)
       ELSE Split(Tail(s), separator, current \o <<Head(s)>>)

\* the for loop of parseLine for the comma: a quote toggles inQuotes and is
\* dropped, a separator outside quotes ends the field
RECURSIVE QuotedSplit(_, _, _, _)
QuotedSplit(s, separator, current, inQuotes) ==
  IF s = <<>> THEN <<Trim(current)>>
  ELSE IF Head(s) = "\""
       THEN QuotedSplit(Tail(s), separator, current, ~inQuotes)
  ELSE IF Head(s) = separator /\ ~inQuotes
       THEN <<Trim(current)>> \o QuotedSplit(Tail(s), separator, <<>>, inQuotes)
  ELSE QuotedSplit(Tail(s), separator, current \o <<Head(s)>>, inQuotes)

parseLine(line, separator) ==
  IF separator = ","
  THEN QuotedSplit(line, separator, <<>>, FALSE)
  ELSE LET parts == Split(line, separator, <<>>)
       IN  [i \in 1..Len(parts) |-> Trim(parts[i])]

\* Object.keys(colMap).find(k => colMap[k] === name) || dflt, parsed: the
\* smallest column index mapped to the field, dflt when there is none
ColumnOf(colMap, name, dflt) ==
  LET ks == {k \in DOMAIN colMap : colMap[k] = name}
  IN  IF ks = {} THEN dflt
      ELSE CHOOSE k \in ks : \A j \in ks : k <= j

\* fields[index]
FieldAt(fields, index) ==
  IF index + 1 \in 1..Len(fields) THEN fields[index + 1] ELSE Undefined

AmountChars == Digits \cup {".", "-"}

\* fileContent.split("\n").filter(l => l.trim())
RECURSIVE NonBlank(_)
NonBlank(content) ==
  IF content = <<>> THEN <<>>
  ELSE (IF Trim(Head(content)) # <<>> THEN <<Head(content)>> ELSE <<>>)
       \o NonBlank(Tail(content))

SinDescripcion ==
  <<"S", "i", "n", " ", "d", "e", "s", "c", "r", "i", "p", "c", "i", "ó", "n">>

\* the type of a row: the sign of the amount, overridden by the type field
TipoOf(montoOriginal, tipoStr) ==
  LET bySign == IF GtZero(montoOriginal) THEN TipoIn ELSE TipoOut
      tipoLower == ToLowerCase(tipoStr)
  IN  IF Falsy(tipoStr) THEN bySign
      ELSE IF \/ Includes(tipoLower, <<"i", "n">>)
              \/ Includes(tipoLower, <<"i", "n", "g", "r", "e", "s", "o">>)
              \/ Includes(tipoLower, <<"c", "r", "e", "d", "i", "t", "o">>)
           THEN TipoIn
      ELSE IF \/ Includes(tipoLower, <<"o", "u", "t">>)
              \/ Includes(tipoLower, <<"e", "g", "r", "e", "s", "o">>)
              \/ Includes(tipoLower, <<"d", "e", "b", "i", "t", "o">>)
           THEN TipoOut
      ELSE bySign

\* the fields of one row, read through the column mapping
RowFields(line, mapping, today) ==
  LET fields == parseLine(line, mapping.separator)
      colMap == mapping.columnMapping
  IN  [fecha |-> OrElse(FieldAt(fields, ColumnOf(colMap, "fecha", 0)), today),
       descripcion |->
         OrElse(FieldAt(fields, ColumnOf(colMap, "descripcion", 1)), SinDescripcion),
       montoStr |->
         OrElse(FieldAt(fields, ColumnOf(colMap, "monto", 2)), <<"0">>),
       moneda |->
         OrElse(FieldAt(fields, ColumnOf(colMap, "moneda", -1)),
                OrElse(mapping.defaultCurrency, COP)),
       tipoStr |-> OrElse(FieldAt(fields, ColumnOf(colMap, "tipo", -1)), <<>>),
       referencia |->
         OrElse(FieldAt(fields, ColumnOf(colMap, "referencia", -1)), Undefined)]

\* parseFloat(montoStr.replace(/[^0-9.-]/g, ""))
RowAmount(montoStr) == ParseFloat(Strip(montoStr, AmountChars))

\* the transaction pushed for a row
RowTransaction(f, montoOriginal, classification) ==
  [fecha |-> f.fecha,
   descripcion |-> f.descripcion,
   monto_original |-> MathAbs(montoOriginal),
   moneda |-> f.moneda,
   tipo |-> TipoOf(montoOriginal, f.tipoStr),
   categoria |-> classification.categoria,
   contrapartida |-> classification.contrapartida,
   referencia |-> f.referencia]

\* the body of the for loop for one line: the transactions it pushes (one or
\* none); q and ai are the replies of the rule store and of the classifier
RowResult(line, mapping, today, q, ai) ==
  IF ~mapping.hasColumnMapping THEN <<>>
  ELSE LET f == RowFields(line, mapping, today)
           montoOriginal == RowAmount(f.montoStr)
           classification == classifyTransaction(f.descripcion, q, ai)
       IN  IF IsNaN(montoOriginal) THEN <<>>
           ELSE IF classification.kind = "throw" THEN <<>>
           ELSE <<RowTransaction(f, montoOriginal, classification)>>

\* !fileContent || !mapping || !userId || !cuenta
PtMissingFields(req) ==
  \/ req.fileContent = <<<<>>>>
  \/ ~req.hasMapping
  \/ ~req.hasUserId
  \/ ~req.hasCuenta

\* ------------------------------------------------------------------ parse-dropi-pdf

\* \d{2}\/\d{2}\/\d{4}
IsDateToken(t) ==
  /\ Len(t) = 10
  /\ \A i \in {1, 2, 4, 5, 7, 8, 9, 10} : t[i] \in Digits
  /\ t[3] = "/" /\ t[6] = "/"

\* length of the run of characters of cs that starts at position i of s
RECURSIVE RunOf(_, _, _)
RunOf(s, i, cs) ==
  IF i <= Len(s) /\ s[i] \in cs THEN 1 + RunOf(s, i + 1, cs) ELSE 0

\* [\d,]+\.?\d* from position i to the end of the token
IsNumberTail(t, i) ==
  LET n == RunOf(t, i, Digits \cup {","})
      p == IF i + n <= Len(t) /\ t[i + n] = "." THEN 1 ELSE 0
      m == RunOf(t, i + n + p, Digits)
  IN  n >= 1 /\ i + n + p + m = Len(t) + 1

\* -?\$[\d,]+\.?\d*
IsValorToken(t) ==
  LET i == IF t # <<>> /\ t[1] = "-" THEN 2 ELSE 1
  IN  i <= Len(t) /\ t[i] = "$" /\ IsNumberTail(t, i + 1)

\* \$?[\d,]+\.?\d*
IsSaldoToken(t) ==
  LET i == IF t # <<>> /\ t[1] = "$" THEN 2 ELSE 1
  IN  IsNumberTail(t, i)

Debito == <<"D", "é", "b", "i", "t", "o">>

Credito == <<"C", "r", "é", "d", "i", "t", "o">>

\* (Débito|Crédito) under the i flag
IsTipoToken(t) == ToLowerCase(t) \in {ToLowerCase(Debito), ToLowerCase(Credito)}

Estados ==
  {<<"A", "p", "r", "o", "b", "a", "d", "a">>,
   <<"R", "e", "c", "h", "a", "z", "a", "d", "a">>,
   <<"P", "e", "n", "d", "i", "e", "n", "t", "e">>}

\* transactionPattern against one record of the content, given as its tokens
\* [dateStr, description, tipoOperacion, estado, valorStr, saldoStr]
MatchesPattern(r) ==
  /\ IsDateToken(r.dateStr)
  /\ r.description # <<>> /\ ~Includes(r.description, <<"|">>)
  /\ IsTipoToken(r.tipoOperacion)
  /\ r.estado \in Estados
  /\ IsValorToken(r.valorStr)
  /\ IsSaldoToken(r.saldoStr)

\* the body of the while loop of parse-dropi-pdf for one match
DropiTransaction(r) ==
  LET cleanValor == Remove(r.valorStr, {"$", ","})
  IN  [fecha |-> SubSeq(r.dateStr, 7, 10) \o <<"-">> \o SubSeq(r.dateStr, 4, 5)
                 \o <<"-">> \o SubSeq(r.dateStr, 1, 2),
       descripcion |-> Trim(r.description),
       monto_original |-> MathAbs(ParseFloat(cleanValor)),
       moneda |-> COP,
       tipo |-> IF r.tipoOperacion = Credito \/ ~StartsWith(cleanValor, <<"-">>)
                THEN TipoIn ELSE TipoOut,
       saldo |-> ParseFloat(Remove(IF Head(r.saldoStr) = "$" THEN Tail(r.saldoStr)
                                   ELSE r.saldoStr, {","})),
       estado |-> r.estado]

RECURSIVE DropiMatches(_)
DropiMatches(records) ==
  IF records = <<>> THEN <<>>
  ELSE (IF MatchesPattern(Head(records))
        THEN <<DropiTransaction(Head(records))>> ELSE <<>>)
       \o DropiMatches(Tail(records))

\* the vendor markers looked for in the lower-cased content
IsDropi(text) ==
  LET lower == ToLowerCase(text)
  IN  \/ Includes(lower, <<"d", "r", "o", "p", "i">>)
      \/ Includes(lower, <<"r", "e", "c", "a", "r", "g", "a", " ", "t", "o", "p", "u", "p">>)
      \/ Includes(lower, <<"m", "o", "v", "i", "m", "i", "e", "n", "t", "o", "s", " ", "y",
                           " ", "t", "r", "a", "n", "s", "a", "c", "c", "i", "o", "n", "e", "s">>)

\* the handler of parse-dropi-pdf: the content is its heading text and the
\* records that follow it
ParseDropiPdf(content) ==
  LET transactions == DropiMatches(content.records)
      isDropi == \/ IsDropi(content.heading)
                 \/ \E i \in 1..Len(content.records) :
                      IsDropi(content.records[i].description)
  IN  IF ~isDropi
      THEN [status |-> 500, error |-> "not dropi", transactions |-> <<>>]
      ELSE IF Len(transactions) = 0
      THEN [status |-> 500, error |-> "no transactions", transactions |-> <<>>]
      ELSE [status |-> 200, error |-> "", transactions |-> transactions]

\* ------------------------------------------------------------------ process-transactions

\* CLASSIFICATION_RULES, in the order of the object's keys
CLASSIFICATION_RULES ==
  <<[keyword |-> <<"C", "O", "B", "R", "O", " ", "D", "E", " ", "F", "L", "E", "T", "E">>,
     categoria |-> "FULFILLMENT", contrapartida |-> "COORDINADORA"],
    [keyword |-> <<"E", "N", "T", "R", "A", "D", "A", " ", "P", "O", "R", " ",
                   "G", "A", "N", "A", "N", "C", "I", "A">>,
     categoria |-> "REV_DROPI_COD", contrapartida |-> "DROPI_PLATFORM"],
    [keyword |-> <<"R", "E", "T", "I", "R", "O", " ", "D", "E", " ", "S", "A", "L", "D", "O">>,
     categoria |-> "WITHDRAWALS", contrapartida |-> "DROPICARTERA"],
    [keyword |-> <<"C", "O", "N", "S", "O">>,
     categoria |-> "WITHDRAWALS", contrapartida |-> "DROPICARTERA"],
    [keyword |-> <<"F", "A", "C", "E", "B", "O", "O", "K">>,
     categoria |-> "ADS_FACEBOOK", contrapartida |-> "FACEBOOK"],
    [keyword |-> <<"M", "E", "T", "A">>,
     categoria |-> "ADS_FACEBOOK", contrapartida |-> "FACEBOOK"],
    [keyword |-> <<"O", "P", "E", "N", "A", "I">>,
     categoria |-> "SOFTWARE_TOOLS", contrapartida |-> "OPENAI"],
    [keyword |-> <<"C", "H", "A", "T", "G", "P", "T">>,
     categoria |-> "SOFTWARE_TOOLS", contrapartida |-> "OPENAI"],
    [keyword |-> <<"T", "R", "A", "N", "S", "F", "E", "R", "E", "N", "C", "I", "A", " ",
                   "D", "E", " ", "W", "A", "L", "L", "E", "T">>,
     categoria |-> "INTERNAL_TRANSFER", contrapartida |-> "SELF"],
    [keyword |-> <<"M", "E", "R", "C", "U", "R", "Y">>,
     categoria |-> "INTERNAL_TRANSFER", contrapartida |-> "MERCURY"],
    [keyword |-> <<"S", "L", "A", "S", "H">>,
     categoria |-> "INTERNAL_TRANSFER", contrapartida |-> "SLASH"]>>

\* classifyTransaction of process-transactions: the static keyword table
classifyStatic(descripcion) ==
  LET upperDesc == ToUpperCase(descripcion)
      hits == {i \in 1..Len(CLASSIFICATION_RULES) :
                 Includes(upperDesc, CLASSIFICATION_RULES[i].keyword)}
  IN  IF hits = {}
      THEN [categoria |-> "OTHER", contrapartida |-> "UNKNOWN"]
      ELSE LET i == CHOOSE i \in hits : \A j \in hits : i <= j
           IN  [categoria |-> CLASSIFICATION_RULES[i].categoria,
                contrapartida |-> CLASSIFICATION_RULES[i].contrapartida]

parseCSVLine(line) == QuotedSplit(line, ",", <<>>, FALSE)

\* a lookup that falls back to the dollar rate and has no rate of 1
RateOrUsd(moneda) ==
  IF moneda \in FxCurrencies \ {COP} THEN FX_RATES(moneda) ELSE 4100

\* FX_RATES[moneda] || 1
RateOrOne(moneda) == IF moneda \in FxCurrencies THEN FX_RATES(moneda) ELSE 1

\* a conversion note `FX: ${moneda} → COP @ ${rate}`: the currency and the
\* rate it prints ("undefined" when the table has none)
FxNote(moneda, rate) == [present |-> TRUE, moneda |-> moneda, rate |-> rate]

NoNote == [present |-> FALSE, moneda |-> <<>>, rate |-> ""]

\* the rate as a note prints it
Shown(rate) == [defined |-> TRUE, value |-> rate]

ShownUndefined == [defined |-> FALSE, value |-> 0]

\* normalizeTransaction
normalizeTransaction(rawData, cuenta, userId, today) ==
  LET classification == classifyStatic(OrElse(rawData.descripcion, <<>>))
      moneda == OrElse(rawData.moneda, COP)
      montoOriginal == ParseFloat(OrElse(rawData.monto_original, OrElse(rawData.monto, <<"0">>)))
      rate == RateOrOne(moneda)
      montoCOP == Times(montoOriginal, rate)
  IN  [fecha |-> OrElse(rawData.fecha, today),
       descripcion |-> OrElse(rawData.descripcion, SinDescripcion),
       cuenta |-> cuenta,
       account_id |-> NoValue,
       tipo |-> IF ~Falsy(rawData.tipo) THEN rawData.tipo
                ELSE IF GtZero(montoCOP) THEN TipoIn ELSE TipoOut,
       monto_original |-> MathAbs(montoOriginal),
       moneda |-> moneda,
       monto_cop |-> MathAbs(montoCOP),
       categoria |-> classification.categoria,
       contrapartida |-> classification.contrapartida,
       referencia |-> OrElse(rawData.referencia, Undefined),
       notas |-> IF moneda # COP THEN FxNote(moneda, Shown(rate)) ELSE NoNote,
       confidence |-> "0.85",
       reason |-> "Auto-classified based on keyword matching",
       user_id |-> userId]

\* ------------------------------------------------------------------ transactions_unified

\* the rows of transactions_unified, in insertion order
VARIABLE stored

\* a text the date column accepts: YYYY-MM-DD
IsDateText(t) ==
  /\ Len(t) = 10
  /\ \A i \in {1, 2, 3, 4, 6, 7, 9, 10} : t[i] \in Digits
  /\ t[5] = "-" /\ t[8] = "-"

\* the constraints of the table on one record: the NOT NULL columns (a NaN is
\* sent as null), the date column and the CHECK on tipo
RowAccepted(r) ==
  /\ IsDateText(r.fecha)
  /\ r.descripcion # Undefined
  /\ r.cuenta # NoValue
  /\ r.tipo \in {TipoIn, TipoOut}
  /\ ~IsNaN(r.monto_original)
  /\ r.moneda # Undefined
  /\ ~IsNaN(r.monto_cop)
  /\ r.user_id # NoValue

\* the bulk insert is one statement: every record passes or none is written
BatchAccepted(batch) == \A i \in 1..Len(batch) : RowAccepted(batch[i])

\* ------------------------------------------------------------------ the screens' state

\* FileUpload: the selected file ("" for none), the selected account ("" for
\* none), loading, parsedTransactions [isNull, rows]
VARIABLES file, accountId, loading, parsedTransactions

\* handleUpload in flight: [pc, file], pc "idle" or "running"; outcome of the
\* last upload: "", "shown" or "error"; shown: the file and the rows of the
\* last upload that filled the preview
VARIABLE upload

\* TransactionPreview: editedTransactions, editingIndex (0 for null), loading
VARIABLES editedTransactions, editingIndex, pvLoading

\* handleSave in flight and its last outcome:
\*   [pc, snap, accountId, userOk, accountFound, insertOk, outcome, reported],
\* reported the number of transactions the success toast names
VARIABLE save

\* handleEdit calls since the preview was mounted
VARIABLE edits

sessionVars ==
  <<file, accountId, loading, parsedTransactions, upload, editedTransactions,
    editingIndex, pvLoading, save, edits>>

Null == [isNull |-> TRUE, rows |-> <<>>]

\* the last record a normaliser produced: [called, by, input, out]
VARIABLE norm

SessionInit ==
  /\ file = "" /\ accountId = "" /\ loading = FALSE
  /\ parsedTransactions = Null
  /\ upload = [pc |-> "idle", file |-> "", outcome |-> "",
               shown |-> [file |-> "", rows |-> <<>>]]
  /\ editedTransactions = <<>> /\ editingIndex = 0 /\ pvLoading = FALSE
  /\ save = [pc |-> "idle", snap |-> <<>>, accountId |-> "", userOk |-> FALSE,
             accountFound |-> FALSE, insertOk |-> FALSE, outcome |-> "",
             reported |-> 0]
  /\ edits = 0

\* ------------------------------------------------------------------ process-transactions, the handler

EndsWith(s, p) == Len(s) >= Len(p) /\ SubSeq(s, Len(s) - Len(p) + 1, Len(s)) = p

IsCsvName(fileName) == EndsWith(ToLowerCase(fileName), <<".", "c", "s", "v">>)

EmptyRaw ==
  [fecha |-> Undefined, descripcion |-> Undefined, monto_original |-> Undefined,
   monto |-> Undefined, moneda |-> Undefined, tipo |-> Undefined,
   referencia |-> Undefined]

\* rawData of a CSV line: fecha,descripcion,monto,moneda,tipo
CsvRaw(line) ==
  LET fields == parseCSVLine(line)
  IN  [EmptyRaw EXCEPT !.fecha = FieldAt(fields, 0),
                       !.descripcion = FieldAt(fields, 1),
                       !.monto_original = FieldAt(fields, 2),
                       !.moneda = OrElse(FieldAt(fields, 3), COP),
                       !.tipo = OrElse(FieldAt(fields, 4), TipoIn)]

\* JSON.parse(line) of the lines of the model: "{}" and a number are values
\* without fields, anything else is no JSON
IsJsonLine(line) ==
  LET t == Trim(line)
  IN  t = <<"{", "}">> \/ (t # <<>> /\ \A i \in 1..Len(t) : t[i] \in Digits)

\* the transactions the for loop of process-transactions collects
RECURSIVE ProcessLines(_, _, _, _, _)
ProcessLines(lines, isCsv, cuenta, userId, today) ==
  IF lines = <<>> THEN <<>>
  ELSE (IF isCsv
        THEN <<normalizeTransaction(CsvRaw(Head(lines)), cuenta, userId, today)>>
        ELSE IF IsJsonLine(Head(lines))
        THEN <<normalizeTransaction(EmptyRaw, cuenta, userId, today)>>
        ELSE <<>>)
       \o ProcessLines(Tail(lines), isCsv, cuenta, userId, today)

\* !fileContent || !cuenta || !userId
ProcMissingFields(req) ==
  req.fileContent = <<<<>>>> \/ req.cuenta = NoValue \/ req.userId = NoValue

\* the transactions process-transactions hands to the store
ProcBatch(req, today) ==
  LET lines == NonBlank(req.fileContent)
      isCsv == IsCsvName(req.fileName)
      data == IF isCsv /\ lines # <<>> THEN Tail(lines) ELSE lines
  IN  ProcessLines(data, isCsv, req.cuenta, req.userId, today)

\* ------------------------------------------------------------------ inputs

\* Lines of a file, records of a document, rules of the store.
MaxLines == 2

MaxRules == 2

\* Rows the model lets transactions_unified hold.
MaxStored == 2

RECURSIVE Join(_, _)
Join(parts, sep) ==
  IF Len(parts) = 0 THEN <<>>
  ELSE IF Len(parts) = 1 THEN parts[1]
  ELSE parts[1] \o <<sep>> \o Join(Tail(parts), sep)

\* the sequences over S of length lo..hi
SeqsOf(S, lo, hi) == UNION {[1..n -> S] : n \in lo..hi}

D1 == <<"2", "0", "2", "5", "-", "0", "1", "-", "0", "5">>

Today == <<"2", "0", "2", "5", "-", "0", "1", "-", "0", "6">>

Meta == <<"M", "e", "t", "a">>

Ab == <<"a", "b">>

Descriptions == {Meta, Ab}

HeaderLine == Join(<<<<"f">>, <<"d">>, <<"m">>>>, ",")

LineNeg == Join(<<D1, Meta, <<"-", "5">>, USD, TipoOut>>, ",")

LinePos == Join(<<D1, Ab, <<"$", "7", ".", "5">>>>, ",")

LineBad == Join(<<D1, Ab, <<"a", "b", "c">>>>, ",")

LineQuoted == Join(<<D1, <<"\"", "a", ",", "b", "\"">>, <<"3">>, XYZ>>, ",")

LineBlank == <<" ">>

DataLines == {LineNeg, LinePos, LineBad, LineQuoted, LineBlank}

\* a header line and up to MaxLines lines
Contents == {<<HeaderLine>> \o body : body \in SeqsOf(DataLines, 0, MaxLines)}

NoColumns == (0 :> "")

MappingFull ==
  [hasHeader |-> TRUE, separator |-> ",", hasColumnMapping |-> TRUE,
   columnMapping |-> (0 :> "fecha") @@ (1 :> "descripcion") @@ (2 :> "monto")
                     @@ (3 :> "moneda") @@ (4 :> "tipo"),
   defaultCurrency |-> COP]

MappingPart ==
  [hasHeader |-> FALSE, separator |-> ",", hasColumnMapping |-> TRUE,
   columnMapping |-> (1 :> "descripcion") @@ (2 :> "monto"),
   defaultCurrency |-> USD]

MappingBare ==
  [hasHeader |-> TRUE, separator |-> ",", hasColumnMapping |-> FALSE,
   columnMapping |-> NoColumns, defaultCurrency |-> Undefined]

Mappings == {MappingFull, MappingPart, MappingBare}

\* the body of a request to parse-transactions
PtRequest(content, mapping, hasCuenta) ==
  [fileContent |-> content, hasMapping |-> TRUE, mapping |-> mapping,
   hasUserId |-> TRUE, hasCuenta |-> hasCuenta]

PtRequests ==
  {PtRequest(c, m, TRUE) : c \in Contents, m \in Mappings}
  \cup {PtRequest(<<HeaderLine, LineNeg>>, MappingFull, FALSE),
        PtRequest(<<<<>>>>, MappingFull, TRUE)}

Keywords == {<<"m", "e">>, <<"T", "A">>}

RuleCategories == {"INVENTORY", "MY_CAT"}

Rule(keyword, categoria, contrapartida, priority) ==
  [keyword |-> keyword, categoria |-> categoria, contrapartida |-> contrapartida,
   priority |-> priority, active |-> TRUE]

\* rules the store may hold before the session: none, or one written with a
\* priority of its own
InitialRules == {<<>>, <<Rule(<<"T", "A">>, "FULFILLMENT", "ACME", 5)>>}

DropiDate == <<"0", "5", "/", "0", "1", "/", "2", "0", "2", "5">>

Aprobada == <<"A", "p", "r", "o", "b", "a", "d", "a">>

DropiRecord(tipoOperacion, estado, valorStr) ==
  [dateStr |-> DropiDate, description |-> Meta, tipoOperacion |-> tipoOperacion,
   estado |-> estado, valorStr |-> valorStr, saldoStr |-> <<"$", "1", ",", "0">>]

DropiRecords ==
  {DropiRecord(Debito, Aprobada, <<"-", "$", "5">>),
   DropiRecord(Credito, Aprobada, <<"$", "7", ".", "5">>),
   DropiRecord(ToLowerCase(Debito), Aprobada, <<"$", "3">>),
   DropiRecord(Debito, Aprobada, <<"$", "4">>),
   DropiRecord(Debito, Aprobada, <<"$", ",">>),
   DropiRecord(Debito, <<"O", "t", "r", "a">>, <<"$", "3">>),
   DropiRecord(ToUpperCase(Credito), Aprobada, <<"-", "$", "1", ",", "2", "0", ".", "5">>)}

DropiContents ==
  {[heading |-> h, records |-> rs] :
     h \in {<<"D", "R", "O", "P", "I">>, <<"B", "a", "n", "k">>,
            <<"R", "e", "c", "a", "r", "g", "a", " ", "T", "o", "p", "u", "p">>},
     rs \in SeqsOf(DropiRecords, 0, MaxLines)}

ProcLine(descripcion, monto, moneda, tipo) ==
  Join(<<D1, descripcion, monto, moneda, tipo>>, ",")

ProcLines ==
  {ProcLine(Meta, <<"-", "5">>, USD, TipoOut),
   ProcLine(Ab, <<"7", ".", "5">>, <<>>, <<>>),
   ProcLine(Ab, <<"3">>, XYZ, TipoIn),
   ProcLine(Ab, <<"a", "b", "c">>, COP, TipoIn),
   <<"{", "}">>}

ProcRequests ==
  {[fileContent |-> <<HeaderLine>> \o body, fileName |-> n, cuenta |-> c,
    userId |-> "u1"] :
     body \in SeqsOf(ProcLines, 1, MaxLines),
     n \in {<<"a", ".", "C", "S", "V">>, <<"a", ".", "t", "x", "t">>},
     c \in {"Nequi"}}
  \cup {[fileContent |-> <<HeaderLine, ProcLine(Ab, <<"3">>, COP, TipoIn)>>,
         fileName |-> <<"a", ".", "c", "s", "v">>, cuenta |-> NoValue, userId |-> "u1"]}

\* ------------------------------------------------------------------ the edge functions

\* parse-transactions, one request at a time:
\*   [state, req, lines, i, transactions, status]
VARIABLE pt

\* the last call of classifyTransaction: [called, descripcion, rules, q, ai, out]
VARIABLE cls

\* the last request to parse-dropi-pdf: [called, content, resp]
VARIABLE dropi

\* the last request to map-columns: [called, fileName, fileContent, ai, resp]
VARIABLE det

\* the classification calls of one document, issued together by handleUpload:
\*   [pc, txs, pending, replies, classifications, arrival, rows]
VARIABLE fan

\* the last line parse-transactions worked on: [called, line, mapping, fields, out],
\* fields what parseLine gave, out the transactions the line pushed
VARIABLE ptLine

\* the last bulk insert handed to transactions_unified:
\*   [by, batch, ok], by "" before the first one
VARIABLE inserted

edgeVars == <<pt, cls, dropi, det, fan, ptLine>>

PtIdle ==
  [state |-> "idle", req |-> PtRequest(<<<<>>>>, MappingBare, FALSE), lines |-> <<>>,
   i |-> 0, transactions |-> <<>>, status |-> 0]

EdgeInit ==
  /\ pt = PtIdle
  /\ cls = [called |-> FALSE, descripcion |-> <<>>, rules |-> <<>>, q |-> <<>>,
            ai |-> [kind |-> "unreachable"], aiCalled |-> FALSE, out |-> Thrown]
  /\ dropi = [called |-> FALSE, content |-> [heading |-> <<>>, records |-> <<>>],
              resp |-> [status |-> 0, error |-> "", transactions |-> <<>>]]
  /\ det = [called |-> FALSE, fileName |-> <<>>, fileContent |-> <<<<>>>>,
            ai |-> [kind |-> "unreachable"],
            resp |-> [status |-> 0, error |-> "", mapping |-> <<>>]]
  /\ fan = [pc |-> "idle", txs |-> <<>>, pending |-> {}, replies |-> <<>>,
            classifications |-> <<>>, arrival |-> <<>>, rows |-> <<>>]
  /\ ptLine = [called |-> FALSE, line |-> <<>>, mapping |-> MappingBare,
               fields |-> <<>>, out |-> <<>>]

StoreInit ==
  /\ stored = <<>>
  /\ inserted = [by |-> "", batch |-> <<>>, ok |-> FALSE]

\* the replies of the rule store to the query of the active rules: an order
\* of the rows, or no data
QueryReplies == RuleQueries(rules) \cup {<<>>}

\* parse-transactions receives a request: the missing-field check, then the
\* lines to walk
PtReceive(req) ==
  /\ pt.state \in {"idle", "done"}
  /\ pt' = IF PtMissingFields(req)
           THEN [PtIdle EXCEPT !.state = "done", !.req = req, !.status = 500]
           ELSE [state |-> "running", req |-> req,
                 lines |-> NonBlank(req.fileContent),
                 i |-> IF req.mapping.hasHeader THEN 1 ELSE 0,
                 transactions |-> <<>>, status |-> 0]
  /\ UNCHANGED <<cls, dropi, det, fan, ptLine>>

\* one turn of the for loop: the line is parsed, classified and pushed, or
\* skipped
PtRow(q, ai) ==
  /\ pt.state = "running"
  /\ pt.i < Len(pt.lines)
  /\ pt' = [pt EXCEPT
             !.i = pt.i + 1,
             !.transactions =
               pt.transactions
               \o RowResult(pt.lines[pt.i + 1], pt.req.mapping, Today, q, ai)]
  /\ UNCHANGED <<cls, dropi, det, fan, ptLine>>

\* the loop is over: the response carries the transactions
PtRespond ==
  /\ pt.state = "running"
  /\ pt.i >= Len(pt.lines)
  /\ pt' = [pt EXCEPT !.state = "done", !.status = 200]
  /\ UNCHANGED <<cls, dropi, det, fan, ptLine>>

\* a call of classifyTransaction
Classify(descripcion, q, ai) ==
  /\ cls' = [called |-> TRUE, descripcion |-> descripcion, rules |-> rules, q |-> q,
             ai |-> ai, aiCalled |-> CallsClassifier(descripcion, q),
             out |-> classifyTransaction(descripcion, q, ai)]
  /\ UNCHANGED <<pt, dropi, det, fan, ptLine>>

\* a request to parse-dropi-pdf
DropiServe(content) ==
  /\ dropi' = [called |-> TRUE, content |-> content, resp |-> ParseDropiPdf(content)]
  /\ UNCHANGED <<pt, cls, det, fan, ptLine>>

\* a request to process-transactions: the lines are normalised and handed to
\* the store in one bulk insert
ProcServe(req, insertOk) ==
  LET batch == ProcBatch(req, Today)
      ok == insertOk /\ BatchAccepted(batch)
  IN  /\ Len(stored) + Len(batch) <= MaxStored
      /\ ~ProcMissingFields(req)
      /\ inserted' = [by |-> "process-transactions", batch |-> batch, ok |-> ok]
      /\ stored' = IF ok THEN stored \o batch ELSE stored

\* the rules screen: addRuleMutation after handleAdd's check of the two
\* required inputs
AddRule(keyword, categoria, contrapartida) ==
  /\ Len(rules) < MaxRules
  /\ keyword # <<>> /\ categoria # ""
  /\ rules' = Append(rules, Rule(keyword, categoria,
                                 OrElseLabel(contrapartida, NoValue), 0))

\* the rules screen: deleteRuleMutation
DeleteRule(i) ==
  /\ i \in 1..Len(rules)
  /\ rules' = SubSeq(rules, 1, i - 1) \o SubSeq(rules, i + 1, Len(rules))

NormInit ==
  norm = [called |-> FALSE, by |-> "",
          out |-> normalizeTransaction(EmptyRaw, "", NoValue, Today)]

vars ==
  <<rules, stored, inserted, pt, cls, dropi, det, fan, ptLine, file, accountId, loading,
    parsedTransactions, upload, editedTransactions, editingIndex, pvLoading,
    save, edits, norm>>

\* ------------------------------------------------------------------ extraction

InitExtract ==
  /\ rules \in InitialRules
  /\ StoreInit
  /\ EdgeInit
  /\ SessionInit
  /\ NormInit

NextExtract ==
  \/ \E req \in PtRequests : PtReceive(req) /\ UNCHANGED <<rules, stored, inserted, sessionVars, norm>>
  \/ \E q \in QueryReplies, ai \in AiOutcomes :
       PtRow(q, ai) /\ UNCHANGED <<rules, stored, inserted, sessionVars, norm>>
  \/ PtRespond /\ UNCHANGED <<rules, stored, inserted, sessionVars, norm>>

SpecExtract == InitExtract /\ [][NextExtract]_vars

\* ------------------------------------------------------------------ vendor extraction

InitDropi ==
  /\ rules = <<>>
  /\ StoreInit
  /\ EdgeInit
  /\ SessionInit
  /\ NormInit

NextDropi ==
  \E c \in DropiContents : DropiServe(c) /\ UNCHANGED <<rules, stored, inserted, sessionVars, norm>>

SpecDropi == InitDropi /\ [][NextDropi]_vars

\* ------------------------------------------------------------------ classification

InitClassify ==
  /\ rules \in InitialRules
  /\ StoreInit
  /\ EdgeInit
  /\ SessionInit
  /\ NormInit

NextClassify ==
  \/ \E k \in Keywords, c \in RuleCategories :
       AddRule(k, c, "") /\ UNCHANGED <<stored, inserted, edgeVars, sessionVars, norm>>
  \/ \E i \in 1..MaxRules : DeleteRule(i) /\ UNCHANGED <<stored, inserted, edgeVars, sessionVars, norm>>
  \/ \E d \in Descriptions, q \in QueryReplies, ai \in AiOutcomes :
       Classify(d, q, ai) /\ UNCHANGED <<rules, stored, inserted, sessionVars, norm>>

SpecClassify == InitClassify /\ [][NextClassify]_vars

\* ------------------------------------------------------------------ claims on extraction and classification

\* C1: every transaction produced by extraction, on the delimited path and on
\* the vendor-known document path, has monto_original >= 0.
C1_AmountNonNegative ==
  /\ \A i \in 1..Len(pt.transactions) : GeZero(pt.transactions[i].monto_original)
  /\ \A i \in 1..Len(dropi.resp.transactions) :
       GeZero(dropi.resp.transactions[i].monto_original)

\* The delimited half of C1 alone: parse-transactions pushes no negative and
\* no NaN amount.
DelimitedAmountNonNegative ==
  \A i \in 1..Len(pt.transactions) : GeZero(pt.transactions[i].monto_original)

\* the data lines of the request parse-transactions is serving
PtDataLines ==
  SubSeq(pt.lines, (IF pt.req.mapping.hasHeader THEN 2 ELSE 1), Len(pt.lines))

\* a line whose amount field is numeric
WellFormedLine(line) ==
  /\ pt.req.mapping.hasColumnMapping
  /\ ~IsNaN(RowAmount(RowFields(line, pt.req.mapping, Today).montoStr))

\* C2: when every data line is well formed, the response of parse-transactions
\* holds one transaction per data line, in the order of the lines, whatever
\* the classification step did.
C2_OnePerLine ==
  (/\ pt.state = "done" /\ pt.status = 200
   /\ \A k \in 1..Len(PtDataLines) : WellFormedLine(PtDataLines[k]))
  => /\ Len(pt.transactions) = Len(PtDataLines)
     /\ \A k \in 1..Len(PtDataLines) :
          pt.transactions[k].descripcion
            = RowFields(PtDataLines[k], pt.req.mapping, Today).descripcion

\* C3: classifyTransaction returns a value for every reply of the rule store
\* and of the external classifier; it never throws.
C3_ClassifyNeverThrows == cls.called => cls.out.kind = "return"

\* the active rules of a store that match a description
MatchingRules(rs, descripcion) ==
  {i \in 1..Len(rs) : rs[i].active /\ RuleMatches(rs[i], descripcion)}

\* C4: when two active rules match the description, the result is the
\* category of a matching rule of the highest priority and does not depend on
\* the order in which the store lists the rules.
C4_RulePrecedence ==
  (/\ cls.called
   /\ cls.q \in RuleQueries(cls.rules)
   /\ Cardinality(MatchingRules(cls.rules, cls.descripcion)) >= 2)
  => /\ \E i \in MatchingRules(cls.rules, cls.descripcion) :
          /\ cls.rules[i].categoria = cls.out.categoria
          /\ \A j \in MatchingRules(cls.rules, cls.descripcion) :
               cls.rules[j].priority <= cls.rules[i].priority
     /\ \A q \in RuleQueries(cls.rules) :
          classifyTransaction(cls.descripcion, q, cls.ai).categoria = cls.out.categoria

\* ------------------------------------------------------------------ map-columns and classify-transaction

\* the response of an edge function that failed: status 500 and a message
Failed(error) == [status |-> 500, error |-> error]

NoMapping ==
  [detectedFormat |-> "", hasTransactions |-> FALSE, transactions |-> <<>>,
   hasHeader |-> FALSE, separator |-> ",", hasColumnMapping |-> FALSE,
   columnMapping |-> NoColumns, defaultCurrency |-> Undefined]

\* the handler of map-columns: ai is the reply of the inference service
MapColumns(fileContent, fileName, ai) ==
  LET isPDF == EndsWith(ToLowerCase(fileName), <<".", "p", "d", "f">>)
      bad(error) == [status |-> 500, error |-> error, mapping |-> NoMapping]
  IN  IF fileContent = <<<<>>>> THEN bad("Missing file content")
      ELSE CASE ai.kind = "unreachable" -> bad("fetch failed")
             [] ai.kind = "status" ->
                  (IF ai.status = "429" THEN bad("Límite de solicitudes excedido")
                   ELSE IF ai.status = "402" THEN bad("Créditos agotados")
                   ELSE bad("Error al analizar la estructura del archivo"))
             [] ai.kind = "malformed" -> bad("Unexpected token")
             [] ai.kind = "json" ->
                  (IF isPDF /\ ~ai.mapping.hasTransactions
                   THEN bad("No se pudieron extraer transacciones del PDF")
                   ELSE IF isPDF /\ Len(ai.mapping.transactions) = 0
                   THEN bad("No se encontraron transacciones en el PDF")
                   ELSE [status |-> 200, error |-> "", mapping |-> ai.mapping])

\* the handler of classify-transaction: the reply to one description
ClassifyServe(descripcion, userOk, q, ai) ==
  LET m == FirstMatch(q, descripcion)
      reply(status, categoria, contrapartida) ==
        [status |-> status, categoria |-> categoria, contrapartida |-> contrapartida]
  IN  IF Falsy(descripcion) \/ ~userOk THEN reply(500, "OTHER", "UNKNOWN")
      ELSE IF m # 0
      THEN reply(200, q[m].categoria, OrElseLabel(q[m].contrapartida, "UNKNOWN"))
      ELSE CASE ai.kind = "unreachable" -> reply(500, "OTHER", "UNKNOWN")
             [] ai.kind = "status" -> reply(200, "OTHER", "UNKNOWN")
             [] ai.kind = "malformed" -> reply(500, "OTHER", "UNKNOWN")
             [] ai.kind = "json" -> reply(200, ai.categoria, ai.contrapartida)

\* handleUpload's use of one reply of classify-transaction: an error of the
\* invocation gives OTHER / UNKNOWN, anything else is taken as it comes
ClientClassification(resp) ==
  IF resp.status # 200
  THEN [categoria |-> "OTHER", contrapartida |-> "UNKNOWN"]
  ELSE [categoria |-> resp.categoria, contrapartida |-> resp.contrapartida]

\* ------------------------------------------------------------------ the upload screen and the preview

\* Edits the model follows in one preview.
MaxEdits == 1

Rows(rows) == [isNull |-> FALSE, rows |-> rows]

Accounts == {"acc1"}

AiTx(descripcion, monto, moneda, tipo) ==
  [fecha |-> D1, descripcion |-> descripcion, monto_original |-> monto,
   moneda |-> moneda, tipo |-> tipo, referencia |-> Undefined]

TxMetaUsd == AiTx(Meta, Whole(100), USD, TipoOut)

TxAbCop == AiTx(Ab, Whole(7), COP, TipoIn)

TxAbXyz == AiTx(Ab, Num(5), XYZ, TipoIn)

\* transaction lists the inference service extracts from a document
AiTxLists == {<<>>, <<TxMetaUsd>>, <<TxAbXyz, TxAbCop>>}

PdfMapping(hasTransactions, transactions) ==
  [NoMapping EXCEPT !.detectedFormat = "pdf", !.hasTransactions = hasTransactions,
                    !.transactions = transactions]

CsvMapping ==
  [NoMapping EXCEPT !.detectedFormat = "csv", !.hasHeader = TRUE,
                    !.hasColumnMapping = TRUE,
                    !.columnMapping = MappingFull.columnMapping,
                    !.defaultCurrency = COP]

\* replies of the inference service to map-columns
MapAiOutcomes ==
  {[kind |-> "unreachable"], [kind |-> "malformed"]}
  \cup {[kind |-> "status", status |-> s] : s \in {"429", "402", "500"}}
  \cup {[kind |-> "json", mapping |-> m] :
          m \in {PdfMapping(TRUE, txs) : txs \in AiTxLists}
                \cup {PdfMapping(FALSE, <<>>), CsvMapping}}

\* the files the user can pick: name and lines
FileOf(id) ==
  CASE id = "a.csv" -> [name |-> <<"a", ".", "c", "s", "v">>,
                        content |-> <<HeaderLine, LineNeg>>]
    [] id = "b.pdf" -> [name |-> <<"b", ".", "P", "D", "F">>,
                        content |-> <<Meta, LineNeg>>]

FileIds == {"a.csv", "b.pdf"}

\* replies of the inference service while the rows of a document are classified
RowAiOutcomes ==
  {[kind |-> "unreachable"], [kind |-> "status", status |-> "429"],
   [kind |-> "json", categoria |-> "ADS_FACEBOOK", contrapartida |-> "ACME"],
   [kind |-> "json", categoria |-> NoValue, contrapartida |-> "ACME"]}

\* what the services answer while one row is classified
RowReplies ==
  {[userOk |-> FALSE, q |-> <<>>, ai |-> [kind |-> "unreachable"]]}
  \cup {[userOk |-> TRUE, q |-> q, ai |-> ai] : q \in QueryReplies, ai \in RowAiOutcomes}

\* the rows handleUpload builds from the transactions of a document and the
\* classification of each
ClassifiedRows(transactions, replies) ==
  [i \in 1..Len(transactions) |->
     LET c == ClientClassification(
                ClassifyServe(transactions[i].descripcion, replies[i].userOk,
                              replies[i].q, replies[i].ai))
     IN  [fecha |-> transactions[i].fecha,
          descripcion |-> transactions[i].descripcion,
          monto_original |-> transactions[i].monto_original,
          moneda |-> transactions[i].moneda,
          tipo |-> transactions[i].tipo,
          categoria |-> c.categoria,
          contrapartida |-> c.contrapartida,
          referencia |-> transactions[i].referencia]]

\* the whole of parse-transactions for one request: replies[k] answers the
\* classification of line k
RECURSIVE PtRun(_, _, _, _)
PtRun(lines, mapping, replies, k) ==
  IF k > Len(lines) THEN <<>>
  ELSE RowResult(lines[k], mapping, Today, replies[k].q, replies[k].ai)
       \o PtRun(lines, mapping, replies, k + 1)

ParseTransactions(req, replies) ==
  IF PtMissingFields(req)
  THEN [status |-> 500, transactions |-> <<>>]
  ELSE [status |-> 200,
        transactions |->
          PtRun(NonBlank(req.fileContent), req.mapping, replies,
                IF req.mapping.hasHeader THEN 2 ELSE 1)]

\* the try block of handleUpload: what it would set parsedTransactions to,
\* or the error it throws
UploadResult(f, userOk, mapAi, replies) ==
  LET mappingData == MapColumns(f.content, f.name, mapAi)
      mapping == mappingData.mapping
      parseData == ParseTransactions(PtRequest(f.content, mapping, FALSE), replies)
      thrown == [ok |-> FALSE, rows |-> <<>>]
  IN  IF ~userOk THEN thrown
      ELSE IF mappingData.status # 200 THEN thrown
      ELSE IF mapping.detectedFormat \in {"pdf", "dropi_pdf"} /\ mapping.hasTransactions
      THEN (IF Len(mapping.transactions) = 0 THEN thrown
            ELSE [ok |-> TRUE, rows |-> ClassifiedRows(mapping.transactions, replies)])
      ELSE IF parseData.status # 200 THEN thrown
      ELSE IF Len(parseData.transactions) = 0 THEN thrown
      ELSE [ok |-> TRUE, rows |-> parseData.transactions]


\* ------------------------------------------------------------------ the preview's commit

\* FX_RATES[t.moneda] as the note of handleSave prints it
ShownRate(moneda) ==
  IF moneda \in FxCurrencies THEN Shown(FX_RATES(moneda)) ELSE ShownUndefined

\* a conversion that copies the original amount whatever the currency
DbTransactionNoRate(t, nombre, account, userId) ==
  [fecha |-> t.fecha,
   descripcion |-> t.descripcion,
   cuenta |-> OrElseLabel(nombre, "Unknown"),
   account_id |-> account,
   tipo |-> t.tipo,
   monto_original |-> t.monto_original,
   moneda |-> t.moneda,
   monto_cop |-> t.monto_original,
   categoria |-> OrElseLabel(t.categoria, "OTHER"),
   contrapartida |-> OrElseLabel(t.contrapartida, "UNKNOWN"),
   referencia |-> OrElse(t.referencia, Undefined),
   notas |-> IF t.moneda # COP THEN FxNote(t.moneda, ShownRate(t.moneda)) ELSE NoNote,
   confidence |-> "0.85",
   reason |-> "Manual review and approval",
   user_id |-> userId]

\* the callback of editedTransactions.map in handleSave: one reviewed row as
\* the record sent to the store; nombre is the name the account lookup gave,
\* NoValue when it gave none
DbTransaction(t, nombre, account, userId) ==
  [fecha |-> t.fecha,
   descripcion |-> t.descripcion,
   cuenta |-> OrElseLabel(nombre, "Unknown"),
   account_id |-> account,
   tipo |-> t.tipo,
   monto_original |-> t.monto_original,
   moneda |-> t.moneda,
   monto_cop |-> Times(t.monto_original, RateOrOne(t.moneda)),
   categoria |-> OrElseLabel(t.categoria, "OTHER"),
   contrapartida |-> OrElseLabel(t.contrapartida, "UNKNOWN"),
   referencia |-> OrElse(t.referencia, Undefined),
   notas |-> IF t.moneda # COP THEN FxNote(t.moneda, ShownRate(t.moneda)) ELSE NoNote,
   confidence |-> "0.85",
   reason |-> "Manual review and approval",
   user_id |-> userId]

\* a batch built from the last row to the first
dbTransactionsReversed(rows, nombre, account, userId) ==
  [i \in 1..Len(rows) |-> DbTransaction(rows[Len(rows) + 1 - i], nombre, account, userId)]

dbTransactions(rows, nombre, account, userId) ==
  [i \in 1..Len(rows) |-> DbTransaction(rows[i], nombre, account, userId)]

\* a store that keeps the first record of a batch it rejects
AfterPartialInsert(rows, batch, ok) ==
  IF ok THEN rows \o batch ELSE rows \o SubSeq(batch, 1, 1)

\* the table after a bulk insert the store was asked for
AfterInsert(rows, batch, ok) == IF ok THEN rows \o batch ELSE rows

\* the screen shows the preview instead of the upload form
PreviewShown == ~parsedTransactions.isNull /\ accountId # ""

\* a Save button that ignores the number of rows
SaveEnabledAnyLength == ~pvLoading

\* a Save button that stays enabled while handleSave runs
SaveEnabledWhileLoading == Len(editedTransactions) # 0

\* the Save button is enabled
SaveEnabled == ~pvLoading /\ Len(editedTransactions) # 0

\* an upload that shows whatever rows it had when it failed
AfterUploadPartial(res, current) == Rows(res.rows)

\* parsedTransactions after handleUpload's try block
AfterUpload(res, current) == IF res.ok THEN Rows(res.rows) ELSE current

\* what the user can put into a field of a row being edited
EditValues(field) ==
  CASE field = "fecha" -> {<<>>}
    [] field = "descripcion" -> {<<"e">>}
    [] field = "monto_original" -> {NaN, Whole(-3)}
    [] field = "tipo" -> {TipoOut}
    [] field = "categoria" -> {"INVENTORY"}
    [] field = "contrapartida" -> {""}

EditFields ==
  {"fecha", "descripcion", "monto_original", "tipo", "categoria", "contrapartida"}

\* what the services answer during one handleSave: the user lookup, the
\* account lookup and the insert (the later ones are not asked after a failed
\* user lookup)
SaveReplies ==
  {[userOk |-> FALSE, accountFound |-> FALSE, insertOk |-> FALSE]}
  \cup {[userOk |-> TRUE, accountFound |-> f, insertOk |-> k] : f, k \in BOOLEAN}

SaveIdle(outcome, r) ==
  [pc |-> "idle", snap |-> <<>>, accountId |-> "", userOk |-> r.userOk,
   accountFound |-> r.accountFound, insertOk |-> r.insertOk, outcome |-> outcome,
   reported |-> 0]

previewVars == <<editedTransactions, editingIndex, pvLoading, save, edits>>

uploadVars == <<file, accountId, loading, parsedTransactions, upload>>

otherVars == <<rules, edgeVars, norm>>

\* handleFileChange
SelectFile(id) ==
  /\ ~PreviewShown /\ ~loading
  /\ file' = id
  /\ UNCHANGED <<accountId, loading, parsedTransactions, upload, previewVars,
                 stored, inserted, otherVars>>

\* the account Select's onValueChange
SelectAccount(a) ==
  /\ ~PreviewShown
  /\ accountId' = a
  /\ UNCHANGED <<file, loading, parsedTransactions, upload, previewVars,
                 stored, inserted, otherVars>>

\* handleUpload up to its first await
HandleUpload ==
  /\ ~PreviewShown
  /\ file # "" /\ accountId # "" /\ ~loading
  /\ Len(stored) + MaxLines <= MaxStored
  /\ loading' = TRUE
  /\ upload' = [upload EXCEPT !.pc = "running", !.file = file, !.outcome = ""]
  /\ UNCHANGED <<file, accountId, parsedTransactions, previewVars,
                 stored, inserted, otherVars>>

\* the rest of handleUpload; when it sets parsedTransactions the preview is
\* mounted with the rows as its initial state
UploadSettle(userOk, mapAi, replies) ==
  LET res == UploadResult(FileOf(upload.file), userOk, mapAi, replies)
  IN  /\ upload.pc = "running"
      /\ parsedTransactions' = AfterUpload(res, parsedTransactions)
      /\ loading' = FALSE
      /\ upload' = [pc |-> "idle", file |-> "",
                    outcome |-> IF res.ok THEN "shown" ELSE "error",
                    shown |-> IF res.ok THEN [file |-> upload.file, rows |-> res.rows]
                              ELSE upload.shown]
      /\ IF ~parsedTransactions'.isNull /\ accountId # ""
         THEN /\ editedTransactions' = parsedTransactions'.rows
              /\ editingIndex' = 0
              /\ pvLoading' = FALSE
              /\ edits' = 0
              /\ UNCHANGED save
         ELSE UNCHANGED previewVars
      /\ UNCHANGED <<file, accountId, stored, inserted, otherVars>>

\* the edit and check buttons of a row: setEditingIndex(idx), setEditingIndex(null)
SetEditing(i) ==
  /\ PreviewShown
  /\ i \in 0..Len(editedTransactions)
  /\ i # editingIndex
  /\ editingIndex' = i
  /\ UNCHANGED <<editedTransactions, pvLoading, save, edits, uploadVars,
                 stored, inserted, otherVars>>

\* an edit that writes the value into the field of every row
HandleEditEveryRow(index, field, value) ==
  /\ PreviewShown
  /\ index = editingIndex /\ index \in 1..Len(editedTransactions)
  /\ edits < MaxEdits
  /\ editedTransactions' =
       [i \in 1..Len(editedTransactions) |->
          [editedTransactions[i] EXCEPT ![field] = value]]
  /\ edits' = edits + 1
  /\ UNCHANGED <<editingIndex, pvLoading, save, uploadVars, stored, inserted, otherVars>>

\* handleEdit, from an input of the row being edited
HandleEdit(index, field, value) ==
  /\ PreviewShown
  /\ index = editingIndex /\ index \in 1..Len(editedTransactions)
  /\ edits < MaxEdits
  /\ editedTransactions' = [editedTransactions EXCEPT ![index][field] = value]
  /\ edits' = edits + 1
  /\ UNCHANGED <<editingIndex, pvLoading, save, uploadVars, stored, inserted, otherVars>>

\* a removal that always drops the last row
HandleRemoveLast(index) ==
  /\ PreviewShown
  /\ index \in 1..Len(editedTransactions)
  /\ editedTransactions' = SubSeq(editedTransactions, 1, Len(editedTransactions) - 1)
  /\ UNCHANGED <<editingIndex, pvLoading, save, edits, uploadVars,
                 stored, inserted, otherVars>>

\* handleRemove
HandleRemove(index) ==
  /\ PreviewShown
  /\ index \in 1..Len(editedTransactions)
  /\ editedTransactions' =
       SubSeq(editedTransactions, 1, index - 1)
       \o SubSeq(editedTransactions, index + 1, Len(editedTransactions))
  /\ UNCHANGED <<editingIndex, pvLoading, save, edits, uploadVars,
                 stored, inserted, otherVars>>

\* a Cancel that leaves the rows of the preview behind
HandleCancelKeepsRows ==
  /\ PreviewShown /\ ~pvLoading
  /\ parsedTransactions' = Null
  /\ UNCHANGED <<editedTransactions, editingIndex, edits, pvLoading, save, file,
                 accountId, loading, upload, stored, inserted, otherVars>>

\* a Cancel that can be pressed while handleSave runs
HandleCancelWhileSaving ==
  /\ PreviewShown
  /\ parsedTransactions' = Null
  /\ editedTransactions' = <<>> /\ editingIndex' = 0 /\ edits' = 0
  /\ UNCHANGED <<pvLoading, save, file, accountId, loading, upload,
                 stored, inserted, otherVars>>

\* the Cancel button: handleCancel of the upload screen, the preview goes
HandleCancel ==
  /\ PreviewShown /\ ~pvLoading
  /\ parsedTransactions' = Null
  /\ editedTransactions' = <<>> /\ editingIndex' = 0 /\ edits' = 0
  /\ UNCHANGED <<pvLoading, save, file, accountId, loading, upload,
                 stored, inserted, otherVars>>

\* the Save button: handleSave up to its first await; the rows it will send
\* are those of the render it was clicked in
HandleSave ==
  /\ PreviewShown /\ SaveEnabled
  /\ pvLoading' = TRUE
  /\ save' = [save EXCEPT !.pc = "running", !.snap = editedTransactions,
                          !.accountId = accountId, !.outcome = ""]
  /\ UNCHANGED <<editedTransactions, editingIndex, edits, uploadVars,
                 stored, inserted, otherVars>>

\* the rest of handleSave: the lookups, the insert, then onComplete or the
\* catch block, then finally
SaveSettle(r) ==
  LET batch == dbTransactions(save.snap, IF r.accountFound THEN "Bank" ELSE NoValue,
                              save.accountId, "u1")
      ok == r.insertOk /\ BatchAccepted(batch)
  IN  /\ save.pc = "running"
      /\ IF ~r.userOk
         THEN /\ save' = SaveIdle("error", r)
              /\ pvLoading' = FALSE
              /\ UNCHANGED <<editedTransactions, editingIndex, edits, uploadVars,
                             stored>>
         ELSE /\ stored' = AfterInsert(stored, batch, ok)
              /\ save' = [SaveIdle(IF ok THEN "saved" ELSE "error",
                                    [r EXCEPT !.insertOk = ok])
                             EXCEPT !.reported = IF ok THEN Len(batch) ELSE 0]
              /\ pvLoading' = FALSE
              /\ IF ok
                 THEN /\ parsedTransactions' = Null
                      /\ file' = "" /\ accountId' = ""
                      /\ editedTransactions' = <<>> /\ editingIndex' = 0 /\ edits' = 0
                      /\ UNCHANGED <<loading, upload>>
                 ELSE UNCHANGED <<editedTransactions, editingIndex, edits, uploadVars>>
      /\ UNCHANGED <<inserted, otherVars>>

\* the rules the session runs with
SessionRules == <<Rule(<<"T", "A">>, "FULFILLMENT", "ACME", 5)>>

Init ==
  /\ rules = SessionRules
  /\ StoreInit
  /\ EdgeInit
  /\ SessionInit
  /\ NormInit

Next ==
  \/ \E id \in FileIds : SelectFile(id)
  \/ \E a \in Accounts : SelectAccount(a)
  \/ HandleUpload
  \/ \E userOk \in BOOLEAN, mapAi \in MapAiOutcomes, replies \in [1..MaxLines -> RowReplies] :
       UploadSettle(userOk, mapAi, replies)
  \/ \E i \in 0..MaxLines : SetEditing(i)
  \/ \E index \in 1..MaxLines, field \in EditFields :
       \E value \in EditValues(field) : HandleEdit(index, field, value)
  \/ \E index \in 1..MaxLines : HandleRemove(index)
  \/ HandleCancel
  \/ HandleSave
  \/ \E r \in SaveReplies : SaveSettle(r)

Spec == Init /\ [][Next]_vars


\* ------------------------------------------------------------------ the two normalisers

RawAmounts == {<<"-", "3">>, <<"2", ".", "5">>, <<"a", "b", "c">>, <<>>}

RawCurrencies == {Undefined, <<>>, COP, USD, AED, XYZ}

\* rawData as process-transactions hands it to normalizeTransaction
RawInputs ==
  {[EmptyRaw EXCEPT !.descripcion = d, !.monto_original = m, !.moneda = c, !.tipo = t] :
     d \in {Undefined, Meta}, m \in RawAmounts, c \in RawCurrencies,
     t \in {Undefined, TipoOut}}

ReviewedAmounts == {NaN, Whole(-3), Whole(0), Num(5), Whole(100)}

\* rows of the review buffer as handleSave finds them
ReviewedRows ==
  {[fecha |-> D1, descripcion |-> Meta, monto_original |-> m, moneda |-> c,
    tipo |-> TipoOut, categoria |-> k, contrapartida |-> "ACME",
    referencia |-> Undefined] :
     m \in ReviewedAmounts, c \in {Undefined, COP, USD, AED, XYZ},
     k \in {NoValue, "INVENTORY"}}

\* normalizeTransaction applied to one rawData
NormalizeRaw(rawData) ==
  /\ norm' = [called |-> TRUE, by |-> "normalizeTransaction",
              out |-> normalizeTransaction(rawData, "Bank", "u1", Today)]
  /\ UNCHANGED <<rules, stored, inserted, edgeVars, sessionVars>>

\* the map callback of handleSave applied to one reviewed row
ConvertRow(t, nombre) ==
  /\ norm' = [called |-> TRUE, by |-> "handleSave",
              out |-> DbTransaction(t, nombre, "acc1", "u1")]
  /\ UNCHANGED <<rules, stored, inserted, edgeVars, sessionVars>>

NextNormalize ==
  \/ \E rawData \in RawInputs : NormalizeRaw(rawData)
  \/ \E t \in ReviewedRows, nombre \in {NoValue, "Bank"} : ConvertRow(t, nombre)

SpecNormalize == Init /\ [][NextNormalize]_vars

\* ------------------------------------------------------------------ process-transactions as a service

InitProc ==
  /\ rules \in InitialRules
  /\ StoreInit
  /\ EdgeInit
  /\ SessionInit
  /\ NormInit

NextProc ==
  \E req \in ProcRequests, insertOk \in BOOLEAN :
    ProcServe(req, insertOk) /\ UNCHANGED <<rules, edgeVars, sessionVars, norm>>

SpecProc == InitProc /\ [][NextProc]_vars


\* handleSave comes to its end in this step
SaveEnds == save.pc = "running" /\ save'.pc = "idle"

\* what a failed commit must leave behind: nothing written, the rows of the
\* preview as they were, the preview still shown and its Save button free
CommitUndone ==
  /\ stored' = stored
  /\ editedTransactions' = editedTransactions
  /\ PreviewShown'
  /\ ~pvLoading'

C6_EmptyBufferNotCommitted == save.pc = "running" => Len(save.snap) > 0

\* the preview is shown with every row removed and no commit running
C6_EmptiedBuffer ==
  /\ PreviewShown /\ editedTransactions = <<>>
  /\ save.pc = "idle" /\ ~pvLoading
  /\ upload.outcome = "shown"

\* the vendor extractor answers content without a matching transaction
\* pattern with an error and no transactions (checked under SpecDropi)
DropiZeroMatchFails ==
  (dropi.called /\ DropiMatches(dropi.content.records) = <<>>) =>
    dropi.resp.status # 200 /\ dropi.resp.transactions = <<>>

\* C7: an upload that fails, whatever step of it failed, leaves
\* parsedTransactions null and no rows to review.
C7_FailedUploadNoBuffer ==
  upload.outcome = "error" =>
    parsedTransactions.isNull /\ editedTransactions = <<>> /\ ~PreviewShown

\* an upload has failed and the form is back
C7_UploadFailed ==
  /\ upload.pc = "idle" /\ upload.outcome = "error"
  /\ file # "" /\ ~loading /\ ~PreviewShown

\* the records of both normalisers keep monto_cop = monto_original x rate
\* (checked under SpecNormalize)
NormalizedAmountRelation ==
  (norm.called /\ norm.out.moneda \in FxCurrencies) =>
    norm.out.monto_cop = Times(norm.out.monto_original, FX_RATES(norm.out.moneda))

\* C8: every stored record of a currency the rate table knows has
\* monto_cop = monto_original x the table's rate (USD 100 gives 410000), rows
\* edited in the preview included.
C8_ReportingAmount ==
  \A i \in 1..Len(stored) :
    /\ stored[i].moneda \in FxCurrencies =>
         stored[i].monto_cop = Times(stored[i].monto_original, FX_RATES(stored[i].moneda))
    /\ (stored[i].moneda = USD /\ stored[i].monto_original = Whole(100)) =>
         stored[i].monto_cop = Whole(410000)

\* a stored dollar row whose amount was edited in the preview
C8_EditedDollarRowStored ==
  \E i \in 1..Len(stored) :
    /\ stored[i].moneda = USD
    /\ stored[i].monto_original = Whole(-3)
    /\ stored[i].monto_cop = Whole(-12300)

\* C9: a normalised record in COP has monto_cop = monto_original and no
\* conversion note, and a record has a conversion note exactly when its
\* currency is not COP.
C9_ReportingCurrency ==
  norm.called =>
    /\ (norm.out.moneda = COP /\ ~IsNaN(norm.out.monto_original)) =>
         norm.out.monto_cop = norm.out.monto_original
    /\ norm.out.moneda = COP => ~norm.out.notas.present
    /\ norm.out.notas.present <=> norm.out.moneda # COP

\* normalizeTransaction has normalised an amount of 3 in COP
C9_PesoAmountNormalized ==
  /\ norm.called /\ norm.by = "normalizeTransaction"
  /\ norm.out.moneda = COP
  /\ norm.out.monto_original = Whole(3)

\* C10: a normalised record of a currency the rate table does not know has
\* monto_cop = monto_original and a conversion note that shows the rate as
\* unresolved.
C10_UnresolvedRateFlagged ==
  (norm.called /\ norm.out.moneda \notin FxCurrencies) =>
    /\ norm.out.monto_cop = norm.out.monto_original
    /\ norm.out.notas.present
    /\ ~norm.out.notas.rate.defined

\* the part of C10 the preview's commit keeps: its note prints no rate
C10_CommitFlagsUnresolvedRate ==
  (norm.called /\ norm.by = "handleSave" /\ norm.out.moneda \notin FxCurrencies) =>
    /\ norm.out.monto_cop = norm.out.monto_original
    /\ norm.out.notas.present
    /\ ~norm.out.notas.rate.defined


\* a number without a fraction
IsInteger(x) == ~x.nan /\ x.v % Unit = 0

\* C11: the reporting amount of every normalised record with a numeric amount
\* is rounded to zero decimal places: monto_cop is an integer.
C11_ReportingAmountRounded ==
  (norm.called /\ ~IsNaN(norm.out.monto_cop)) => IsInteger(norm.out.monto_cop)

\* parse-transactions never aborts on a row: a request with its fields is
\* answered 200, and no transaction it returns has a non-numeric amount
\* (checked under SpecExtract)
PtBadRowSkipped ==
  (pt.state = "done" /\ ~PtMissingFields(pt.req)) =>
    /\ pt.status = 200
    /\ \A i \in 1..Len(pt.transactions) : ~IsNaN(pt.transactions[i].monto_original)

\* parse-transactions walks every line: each turn of the loop moves to the
\* next line and keeps what the earlier lines gave (checked under SpecExtract)
PtLoopGoesOn ==
  [][(pt.state = "running" /\ pt'.state = "running") =>
       /\ pt'.i = pt.i + 1
       /\ Len(pt'.transactions) >= Len(pt.transactions)
       /\ SubSeq(pt'.transactions, 1, Len(pt.transactions)) = pt.transactions]_vars

\* C12: a line whose amount is not numeric is skipped and does not abort the
\* batch: process-transactions hands no record with a non-numeric amount to
\* the store, and the records of the other lines are stored when the store
\* takes the insert.
C12_BadRowSkipped ==
  inserted.by = "process-transactions" =>
    \A i \in 1..Len(inserted.batch) : ~IsNaN(inserted.batch[i].monto_original)


\* the buffer goes from empty to populated in this step
Populates == parsedTransactions.isNull /\ ~parsedTransactions'.isNull

\* the buffer goes from populated to empty in this step
Empties == ~parsedTransactions.isNull /\ parsedTransactions'.isNull

\* the steps of the review buffer: Empty -> Populated by a successful upload
\* only, rows and the edited row change only while the preview is shown, a
\* populated buffer is never replaced, and it ends by a commit that stores
\* rows or by a discard that stores none, empty afterwards
BufferSteps ==
  /\ Populates =>
       /\ upload.pc = "running" /\ upload'.outcome = "shown"
       /\ Len(parsedTransactions'.rows) > 0
       /\ editedTransactions' = parsedTransactions'.rows
       /\ editingIndex' = 0
  /\ (editedTransactions' # editedTransactions \/ editingIndex' # editingIndex) =>
       \/ Populates
       \/ PreviewShown /\ PreviewShown'
       \/ PreviewShown /\ Empties
  /\ (~parsedTransactions.isNull /\ ~parsedTransactions'.isNull) =>
       parsedTransactions' = parsedTransactions
  /\ Empties =>
       \/ save.pc = "running" /\ save'.outcome = "saved" /\ Len(stored') > Len(stored)
       \/ save.pc = "idle" /\ stored' = stored
  /\ parsedTransactions'.isNull =>
       editedTransactions' = <<>> /\ editingIndex' = 0 /\ ~PreviewShown'

\* a row that went through the currency normaliser carries a reporting amount
IsNormalised(row) == "monto_cop" \in DOMAIN row

C14_DiscardNoPersistence ==
  [][/\ (Empties /\ save.pc = "idle") =>
          /\ stored' = stored /\ inserted' = inserted
          /\ editedTransactions' = <<>>
          /\ save'.pc = "idle"
     /\ stored' # stored =>
          /\ save.pc = "running" /\ PreviewShown /\ pvLoading
          /\ Len(stored') = Len(stored) + Len(save.snap)
     /\ save'.pc = "running" => PreviewShown' /\ pvLoading']_vars

\* a buffer was discarded after a commit of it had failed: nothing is stored
C14_DiscardedAfterFailedCommit ==
  /\ parsedTransactions.isNull /\ upload.outcome = "shown"
  /\ save.pc = "idle" /\ save.outcome = "error"
  /\ editedTransactions = <<>> /\ stored = <<>> /\ file # ""


\* C15: every record the commit has stored has monto_original >= 0 and
\* monto_cop >= 0, whatever was edited or removed in the preview.
C15_CommittedAmountsNonNegative ==
  \A i \in 1..Len(stored) :
    GeZero(stored[i].monto_original) /\ GeZero(stored[i].monto_cop)

\* C16: the category classifyTransaction returns, from a user rule, from the
\* external classifier or from a fallback, is one of the nine labels.
C16_CategoryClosedSet ==
  (cls.called /\ cls.out.kind = "return") => cls.out.categoria \in CATEGORIAS


\* keyword is a substring of the description, letter case apart
CaseInsensitiveMatch(keyword, descripcion) ==
  Includes(ToLowerCase(descripcion), ToLowerCase(keyword))

C18_StaticFallback ==
  (/\ cls.called
   /\ FirstMatch(cls.q, cls.descripcion) = 0
   /\ cls.ai.kind \in {"unreachable", "malformed"}) =>
    cls.out = Returned(classifyStatic(cls.descripcion).categoria,
                       classifyStatic(cls.descripcion).contrapartida)

\* the classify-transaction function does not use the built-in table either:
\* its answer to the same failure is 500 with OTHER / UNKNOWN (checked under
\* SpecClassify)
ServedFailureIsOther ==
  (/\ cls.called
   /\ FirstMatch(cls.q, cls.descripcion) = 0
   /\ cls.ai.kind \in {"unreachable", "malformed"}) =>
    LET served == ClassifyServe(cls.descripcion, TRUE, cls.q, cls.ai)
    IN  served.status = 500 /\ served.categoria = "OTHER"

\* C20: a 429 and a 402 reply of the external classifier reach the caller of
\* classifyTransaction as two results that differ from each other and from
\* the result of any other failing status.
C20_QuotaRepliesDistinct ==
  (/\ cls.called
   /\ FirstMatch(cls.q, cls.descripcion) = 0
   /\ cls.ai.kind = "status"
   /\ cls.ai.status \in {"429", "402"}) =>
    \A s \in {"429", "402", "500"} \ {cls.ai.status} :
      classifyTransaction(cls.descripcion, cls.q, [kind |-> "status", status |-> s])
        # cls.out


\* ------------------------------------------------------------------ map-columns as a service

\* a mapping for delimited text in which the inference left out columnMapping
CsvMappingNoColumns ==
  [NoMapping EXCEPT !.detectedFormat = "csv", !.hasHeader = TRUE,
                    !.defaultCurrency = COP]

\* replies of the inference service to map-columns, the incomplete ones included
DetectAiOutcomes ==
  MapAiOutcomes \cup {[kind |-> "json", mapping |-> CsvMappingNoColumns]}

DetectNames ==
  {<<"a", ".", "c", "s", "v">>, <<"a", ".", "t", "s", "v">>,
   <<"b", ".", "P", "D", "F">>, <<"b", ".", "p", "d", "f">>}

DetectContents == {<<<<>>>>, <<HeaderLine, LineNeg>>, <<Meta, LineNeg>>}

\* a request to map-columns
Detect(fileContent, fileName, ai) ==
  /\ det' = [called |-> TRUE, fileName |-> fileName, fileContent |-> fileContent,
             ai |-> ai, resp |-> MapColumns(fileContent, fileName, ai)]
  /\ UNCHANGED <<pt, cls, dropi, fan, ptLine, rules, stored, inserted, sessionVars, norm>>

NextDetect ==
  \E fileContent \in DetectContents, fileName \in DetectNames, ai \in DetectAiOutcomes :
    Detect(fileContent, fileName, ai)

SpecDetect == Init /\ [][NextDetect]_vars

\* the file of the last request to map-columns is a document
DetIsPdf == EndsWith(ToLowerCase(det.fileName), <<".", "p", "d", "f">>)

\* C19: map-columns answers with an error and a reason, never with a
\* descriptor, when the inference output is malformed, when it has no or an
\* empty transaction list for a document, and when it has no columnMapping
\* for delimited text.
C19_DetectionFailsOnBadOutput ==
  (/\ det.called
   /\ \/ det.ai.kind = "malformed"
      \/ /\ det.ai.kind = "json"
         /\ \/ DetIsPdf /\ ~det.ai.mapping.hasTransactions
            \/ DetIsPdf /\ Len(det.ai.mapping.transactions) = 0
            \/ ~DetIsPdf /\ ~det.ai.mapping.hasColumnMapping) =>
    det.resp.status # 200 /\ det.resp.error # ""

\* the part of C19 map-columns keeps: malformed output and a missing or empty
\* transaction list of a document are answered with an error (checked under
\* SpecDetect)
DetectionFailsOnBadDocument ==
  (/\ det.called
   /\ \/ det.ai.kind = "malformed"
      \/ /\ det.ai.kind = "json" /\ DetIsPdf
         /\ \/ ~det.ai.mapping.hasTransactions
            \/ Len(det.ai.mapping.transactions) = 0) =>
    det.resp.status # 200 /\ det.resp.error # ""

\* the detection half of C20: map-columns answers a 429 and a 402 of the
\* inference service with two messages that differ from each other and from
\* the message for any other status (checked under SpecDetect)
DetectQuotaRepliesDistinct ==
  (/\ det.called /\ det.fileContent # <<<<>>>>
   /\ det.ai.kind = "status" /\ det.ai.status \in {"429", "402"}) =>
    /\ det.resp.status # 200
    /\ \A s \in {"429", "402", "500"} \ {det.ai.status} :
         MapColumns(det.fileContent, det.fileName, [kind |-> "status", status |-> s]).error
           # det.resp.error


\* ------------------------------------------------------------------ the classification calls of a document

\* the transaction lists of the documents whose rows are classified; an empty
\* list never gets this far (handleUpload throws before)
FanTxLists == {<<TxMetaUsd>>, <<TxAbXyz, TxAbCop>>, <<TxMetaUsd, TxAbCop, TxAbXyz>>}

\* a promise that has not resolved yet
Pending == [categoria |-> "", contrapartida |-> ""]

\* an array that takes the results in the order the calls complete
CollectByArrival(classifications, arrival, i, c) ==
  [classifications EXCEPT ![Len(arrival) + 1] = c]

\* Promise.all: the result of the i-th promise is the i-th element, whenever
\* it resolves
Collect(classifications, arrival, i, c) == [classifications EXCEPT ![i] = c]

\* transactions.map((tx, i) => ({...tx, categoria: classifications[i].categoria,
\* contrapartida: classifications[i].contrapartida}))
MergeRows(transactions, classifications) ==
  [i \in 1..Len(transactions) |->
     [fecha |-> transactions[i].fecha,
      descripcion |-> transactions[i].descripcion,
      monto_original |-> transactions[i].monto_original,
      moneda |-> transactions[i].moneda,
      tipo |-> transactions[i].tipo,
      categoria |-> classifications[i].categoria,
      contrapartida |-> classifications[i].contrapartida,
      referencia |-> transactions[i].referencia]]

\* transactions.map(async (tx) => ...): every callback runs up to its await,
\* so all the calls are out before any reply is looked at
FanOut(txs) ==
  /\ fan.pc \in {"idle", "done"}
  /\ fan' = [pc |-> "waiting", txs |-> txs, pending |-> 1..Len(txs),
             replies |-> [i \in 1..Len(txs) |->
                            [userOk |-> FALSE, q |-> <<>>, ai |-> [kind |-> "unreachable"]]],
             classifications |-> [i \in 1..Len(txs) |-> Pending],
             arrival |-> <<>>, rows |-> <<>>]
  /\ UNCHANGED <<pt, cls, dropi, det, ptLine, rules, stored, inserted, sessionVars, norm>>

\* the call for row i comes back: the callback goes on after its await and
\* its promise resolves
CallSettles(i, reply) ==
  /\ fan.pc = "waiting"
  /\ i \in fan.pending
  /\ fan' = [fan EXCEPT
               !.pending = fan.pending \ {i},
               !.replies[i] = reply,
               !.classifications =
                  Collect(fan.classifications, fan.arrival, i,
                          ClientClassification(
                            ClassifyServe(fan.txs[i].descripcion, reply.userOk,
                                          reply.q, reply.ai))),
               !.arrival = Append(fan.arrival, i)]
  /\ UNCHANGED <<pt, cls, dropi, det, ptLine, rules, stored, inserted, sessionVars, norm>>

\* await Promise.all(...) goes on once every promise has resolved; the rows
\* are built
FanIn ==
  /\ fan.pc = "waiting"
  /\ fan.pending = {}
  /\ fan' = [fan EXCEPT !.pc = "done",
                        !.rows = MergeRows(fan.txs, fan.classifications)]
  /\ UNCHANGED <<pt, cls, dropi, det, ptLine, rules, stored, inserted, sessionVars, norm>>

NextFan ==
  \/ \E txs \in FanTxLists : FanOut(txs)
  \/ \E i \in 1..3, reply \in RowReplies : CallSettles(i, reply)
  \/ FanIn

SpecFan == Init /\ [][NextFan]_vars

\* C21: whatever the order in which the classification calls of a document
\* complete, row i of the buffer is transaction i with the classification
\* answered to call i, and the rows are those that classifying the
\* transactions one after the other, with the same answers, gives.
C21_FanInKeepsRowOrder ==
  fan.pc = "done" =>
    /\ Len(fan.rows) = Len(fan.txs)
    /\ \A i \in 1..Len(fan.txs) :
         LET c == ClientClassification(
                    ClassifyServe(fan.txs[i].descripcion, fan.replies[i].userOk,
                                  fan.replies[i].q, fan.replies[i].ai))
         IN  /\ fan.rows[i].descripcion = fan.txs[i].descripcion
             /\ fan.rows[i].monto_original = fan.txs[i].monto_original
             /\ fan.rows[i].categoria = c.categoria
             /\ fan.rows[i].contrapartida = c.contrapartida
    /\ fan.rows = ClassifiedRows(fan.txs, fan.replies)

\* the calls of a three-row document came back last row first, with a
\* different category for each of the first two rows
C21_OutOfOrderCompletion ==
  /\ fan.pc = "done"
  /\ fan.arrival = <<3, 2, 1>>
  /\ fan.rows[1].categoria = "FULFILLMENT"
  /\ fan.rows[2].categoria = "ADS_FACEBOOK"
  /\ fan.rows[3].categoria = "OTHER"


\* ------------------------------------------------------------------ claims on the review session, continued

\* C22: an upload of the file whose rows the preview showed last, after that
\* preview was discarded and with the same rules and rates, fills the preview
\* with the same rows.
C22_ReuploadIdentical ==
  [][(upload.pc = "running" /\ upload'.pc = "idle" /\ upload'.outcome = "shown"
      /\ upload.shown.file = upload.file)
     => parsedTransactions'.rows = upload.shown.rows]_vars


\* the step is a call of handleEdit
EditStep == edits' = edits + 1

\* C23: handleEdit(index, field, value) puts value into that field of that
\* row and changes nothing else: the other fields of the row, the other rows,
\* their order and number stay, as do the uploaded list, the table, the
\* classification calls and the conversion to pesos (no row gets a
\* monto_cop before the commit).
C23_EditChangesOneField ==
  [][EditStep =>
       /\ Len(editedTransactions') = Len(editedTransactions)
       /\ editingIndex \in 1..Len(editedTransactions)
       /\ \E field \in EditFields :
            /\ editedTransactions'[editingIndex][field] \in EditValues(field)
            /\ \A i \in 1..Len(editedTransactions) :
                 /\ DOMAIN editedTransactions'[i] = DOMAIN editedTransactions[i]
                 /\ \A f \in DOMAIN editedTransactions[i] :
                      (i # editingIndex \/ f # field)
                        => editedTransactions'[i][f] = editedTransactions[i][f]
       /\ \A i \in 1..Len(editedTransactions') : ~IsNormalised(editedTransactions'[i])
       /\ UNCHANGED <<parsedTransactions, stored, inserted, rules, edgeVars, norm,
                      save, pvLoading, editingIndex>>]_vars

\* the second row of a two-row preview has had its category edited; the
\* first row and the other fields of the second are those of the upload
C23_SecondRowEdited ==
  /\ PreviewShown
  /\ edits = 1
  /\ Len(editedTransactions) = 2 /\ Len(parsedTransactions.rows) = 2
  /\ editedTransactions[2].categoria = "INVENTORY"
  /\ parsedTransactions.rows[2].categoria # "INVENTORY"
  /\ parsedTransactions.rows[1].categoria # "INVENTORY"
  /\ editedTransactions[1] = parsedTransactions.rows[1]


\* the step is a call of handleRemove
RemoveStep ==
  /\ PreviewShown /\ PreviewShown'
  /\ Len(editedTransactions') = Len(editedTransactions) - 1

\* rows without the row at index
Without(rows, index) == SubSeq(rows, 1, index - 1) \o SubSeq(rows, index + 1, Len(rows))

\* C24: every row the preview shows can be removed, also while a commit is
\* under way; handleRemove(index) drops the row at that index and keeps the
\* others in their order, and a
\* commit asked for afterwards sends the rows the preview holds then, one
\* record per row, so a removed row is not in it.
C24_RemoveDropsOneRow ==
  /\ [](PreviewShown =>
          \A index \in 1..Len(editedTransactions) :
            ENABLED (/\ HandleRemove(index)
                     /\ editedTransactions' = Without(editedTransactions, index)))
  /\ [][RemoveStep =>
          /\ \E index \in 1..Len(editedTransactions) :
               editedTransactions' = Without(editedTransactions, index)
          /\ UNCHANGED <<parsedTransactions, stored, inserted, save>>]_vars
  /\ [][(save.pc = "idle" /\ save'.pc = "running") => save'.snap = editedTransactions]_vars
  /\ [][stored' # stored =>
          /\ save.pc = "running"
          /\ Len(stored') = Len(stored) + Len(save.snap)
          /\ \A i \in 1..Len(save.snap) :
               /\ stored'[Len(stored) + i].descripcion = save.snap[i].descripcion
               /\ stored'[Len(stored) + i].monto_original = save.snap[i].monto_original
               /\ stored'[Len(stored) + i].moneda = save.snap[i].moneda]_vars

\* the first of the two rows of a document was removed and the commit that
\* followed stored the second one only
C24_RemovedRowNotStored ==
  /\ save.outcome = "saved"
  /\ Len(upload.shown.rows) = 2
  /\ upload.shown.rows[1].moneda = XYZ
  /\ Len(stored) = 1
  /\ stored[1].moneda = COP
  /\ stored[1].descripcion = upload.shown.rows[2].descripcion


\* C25: handleSave starts only with an account selected; a commit that
\* succeeds adds to the table, in one insert, one record per row of the
\* preview it was asked for, in the rows' order, each with that account, the
\* user and the note "Manual review and approval", and the count it reports
\* is the number of those rows.
C25_CommitOneRecordPerRow ==
  /\ [][(save.pc = "idle" /\ save'.pc = "running") =>
          /\ accountId # ""
          /\ save'.accountId = accountId
          /\ save'.snap = editedTransactions
          /\ Len(editedTransactions) > 0]_vars
  /\ [][(save.pc = "running" /\ save'.outcome = "saved") =>
          /\ Len(stored') = Len(stored) + Len(save.snap)
          /\ SubSeq(stored', 1, Len(stored)) = stored
          /\ save'.reported = Len(save.snap)
          /\ \A i \in 1..Len(save.snap) :
               LET r == stored'[Len(stored) + i]
               IN  /\ r.account_id = save.accountId
                   /\ r.account_id \in Accounts
                   /\ r.user_id = "u1"
                   /\ r.reason = "Manual review and approval"
                   /\ r.fecha = save.snap[i].fecha
                   /\ r.descripcion = save.snap[i].descripcion
                   /\ r.monto_original = save.snap[i].monto_original
                   /\ r.moneda = save.snap[i].moneda
                   /\ r.tipo = save.snap[i].tipo]_vars
  /\ [][stored' # stored => save.pc = "running" /\ save'.outcome = "saved"]_vars

\* a commit of a preview with two rows succeeded: two records, in the order
\* of the rows
C25_TwoRowsCommitted ==
  /\ save.outcome = "saved"
  /\ save.reported = 2
  /\ Len(stored) = 2
  /\ stored[1].moneda = XYZ /\ stored[2].moneda = COP
  /\ stored[1].account_id = "acc1" /\ stored[2].account_id = "acc1"


\* ------------------------------------------------------------------ one line of a delimited file

\* the separators the descriptor can name
Separators == {",", "\t", "|"}

\* what the amount column of a line holds
AmountTexts == {<<"-", "5">>, <<"7", ".", "5">>, <<"0">>}

\* what the type column of a line holds
TipoTexts ==
  {<<>>, <<"x">>, <<"I", "N">>, TipoOut,
   <<"E", "g", "r", "e", "s", "o">>, <<"i", "n", "g", "r", "e", "s", "o">>,
   Debito, <<"d", "e", "b", "i", "t", "o">>,
   Credito, <<"c", "r", "e", "d", "i", "t", "o">>}

\* a description in quotes with the separator inside
Quoted(separator) == <<"\"", "a", separator, "b", "\"">>

\* lines with the five columns date, description, amount, currency, type,
\* lines with a quoted description, and lines with two or three columns
LinesOf(separator) ==
  {Join(<<D1, Ab, m, COP, t>>, separator) : m \in AmountTexts, t \in TipoTexts}
  \cup {Join(<<D1, Quoted(separator), <<"3">>, COP, TipoOut>>, separator),
        Join(<<Ab, <<"7">>>>, separator),
        Join(<<<<"7">>, Meta, <<"9">>>>, separator)}

ColumnsFull ==
  (0 :> "fecha") @@ (1 :> "descripcion") @@ (2 :> "monto") @@ (3 :> "moneda")
  @@ (4 :> "tipo")

\* descriptors of files that have no date column, or an amount column only
ColumnsNoDate == (0 :> "descripcion") @@ (1 :> "monto")

ColumnsAmountOnly == (0 :> "monto")

LineMappings ==
  {[hasHeader |-> FALSE, separator |-> s, hasColumnMapping |-> TRUE,
    columnMapping |-> c, defaultCurrency |-> USD] :
     s \in Separators, c \in {ColumnsFull, ColumnsNoDate, ColumnsAmountOnly}}

\* the body of the for loop of parse-transactions for one line; the rule
\* query gives no rule and the classifier answers
ParseRow(line, mapping) ==
  /\ ptLine' = [called |-> TRUE, line |-> line, mapping |-> mapping,
                fields |-> parseLine(line, mapping.separator),
                out |-> RowResult(line, mapping, Today, <<>>,
                                  [kind |-> "json", categoria |-> "GROCERIES",
                                   contrapartida |-> "ACME"])]
  /\ UNCHANGED <<pt, cls, dropi, det, fan, rules, stored, inserted, sessionVars, norm>>

NextLine ==
  \E s \in Separators : \E line \in LinesOf(s), mapping \in LineMappings :
    ParseRow(line, mapping)

SpecLine == Init /\ [][NextLine]_vars

\* the words of the type column, lower case
IncomeWords ==
  {<<"i", "n">>, <<"i", "n", "g", "r", "e", "s", "o">>,
   <<"c", "r", "e", "d", "i", "t", "o">>, ToLowerCase(Credito)}

ExpenseWords ==
  {<<"o", "u", "t">>, <<"e", "g", "r", "e", "s", "o">>,
   <<"d", "e", "b", "i", "t", "o">>, ToLowerCase(Debito)}

ContainsAny(text, words) == \E w \in words : Includes(ToLowerCase(text), w)

\* the line had the five columns and pushed a transaction
FiveColumnRow ==
  /\ ptLine.called
  /\ ptLine.mapping.columnMapping = ColumnsFull
  /\ Len(ptLine.fields) = 5
  /\ Len(ptLine.out) = 1

\* C26: the direction of a row of a delimited file is in exactly when the
\* parsed amount is > 0 if the type column is empty or holds no known word;
\* it is out when the type column holds an expense word (out, egreso, debito,
\* débito) and in when it holds an income word (in, ingreso, credito,
\* crédito), whatever the sign of the amount.
C26_DirectionFromTypeField ==
  FiveColumnRow =>
    LET tipoStr == ptLine.fields[5]
        amount == RowAmount(ptLine.fields[3])
        tipo == ptLine.out[1].tipo
    IN  /\ (~ContainsAny(tipoStr, IncomeWords) /\ ~ContainsAny(tipoStr, ExpenseWords))
             => (tipo = TipoIn <=> GtZero(amount))
        /\ (ContainsAny(tipoStr, ExpenseWords) /\ ~ContainsAny(tipoStr, IncomeWords))
             => tipo = TipoOut
        /\ (ContainsAny(tipoStr, IncomeWords) /\ ~ContainsAny(tipoStr, ExpenseWords))
             => tipo = TipoIn

\* the same without the accented spellings: these the code knows
DirectionFromUnaccentedWords ==
  FiveColumnRow =>
    LET tipoStr == ptLine.fields[5]
        amount == RowAmount(ptLine.fields[3])
        tipo == ptLine.out[1].tipo
        income == IncomeWords \ {ToLowerCase(Credito)}
        expense == ExpenseWords \ {ToLowerCase(Debito)}
    IN  /\ (~ContainsAny(tipoStr, income) /\ ~ContainsAny(tipoStr, expense))
             => (tipo = TipoIn <=> GtZero(amount))
        /\ (ContainsAny(tipoStr, expense) /\ ~ContainsAny(tipoStr, income))
             => tipo = TipoOut
        /\ ContainsAny(tipoStr, income) => tipo = TipoIn


\* the separators of a line that stand outside quotes: an even number of
\* quotes before them
UnquotedSeparators(line, separator) ==
  Cardinality({i \in 1..Len(line) :
                 /\ line[i] = separator
                 /\ Cardinality({j \in 1..(i - 1) : line[j] = "\""}) % 2 = 0})

\* C28: for the comma, the tab and the pipe, parseLine does not split at a
\* separator inside a double-quoted field: a line has as many fields as it has
\* separators outside quotes, plus one.
C28_SplitRespectsQuotes ==
  ptLine.called =>
    Len(ptLine.fields) = UnquotedSeparators(ptLine.line, ptLine.mapping.separator) + 1

\* for the comma it does
CommaSplitRespectsQuotes ==
  (ptLine.called /\ ptLine.mapping.separator = ",") =>
    /\ Len(ptLine.fields) = UnquotedSeparators(ptLine.line, ",") + 1
    /\ Len(parseCSVLine(ptLine.line)) = UnquotedSeparators(ptLine.line, ",") + 1

\* the field the descriptor gives no column for
Unmapped(name) == \A k \in DOMAIN ptLine.mapping.columnMapping :
                    ptLine.mapping.columnMapping[k] # name

\* C29: a field of a row that has no entry in columnMapping takes its
\* default and is read from no column: the date is today, the description
\* the placeholder, the currency the descriptor's default currency, the
\* reference unset (not an empty text).
C29_UnmappedFieldDefaults ==
  (ptLine.called /\ Len(ptLine.out) = 1) =>
    /\ Unmapped("fecha") => ptLine.out[1].fecha = Today
    /\ Unmapped("descripcion") => ptLine.out[1].descripcion = SinDescripcion
    /\ Unmapped("moneda") => ptLine.out[1].moneda = ptLine.mapping.defaultCurrency
    /\ Unmapped("referencia") => ptLine.out[1].referencia = Undefined

\* currency and reference do take their defaults
UnmappedCurrencyAndReferenceDefault ==
  (ptLine.called /\ Len(ptLine.out) = 1) =>
    /\ Unmapped("moneda") => ptLine.out[1].moneda = ptLine.mapping.defaultCurrency
    /\ Unmapped("referencia") =>
         ptLine.out[1].referencia = Undefined /\ ptLine.out[1].referencia # <<>>


\* ------------------------------------------------------------------ claims on vendor extraction, continued

\* the records of the last request that the pattern matched, in order
DropiMatched == SelectSeq(dropi.content.records, MatchesPattern)

\* C27: parse-dropi-pdf gives every record whose operation type is Débito
\* the direction out and every record whose operation type is Crédito the
\* direction in, whatever the sign of the amount and the letter case of the
\* operation type.
C27_OperationTypeDecides ==
  (dropi.called /\ dropi.resp.status = 200) =>
    /\ Len(dropi.resp.transactions) = Len(DropiMatched)
    /\ \A i \in 1..Len(DropiMatched) :
         dropi.resp.transactions[i].tipo =
           IF ToLowerCase(DropiMatched[i].tipoOperacion) = ToLowerCase(Debito)
           THEN TipoOut ELSE TipoIn

\* what holds: Crédito spelled as in the statement is in, and a Débito whose
\* amount carries a minus sign is out
DropiTypeAndSignAgree ==
  (dropi.called /\ dropi.resp.status = 200) =>
    /\ Len(dropi.resp.transactions) = Len(DropiMatched)
    /\ \A i \in 1..Len(DropiMatched) :
         /\ DropiMatched[i].tipoOperacion = Credito
              => dropi.resp.transactions[i].tipo = TipoIn
         /\ (ToLowerCase(DropiMatched[i].tipoOperacion) = ToLowerCase(Debito)
             /\ Head(DropiMatched[i].valorStr) = "-")
              => dropi.resp.transactions[i].tipo = TipoOut


\* ------------------------------------------------------------------ the session, with its requests answered

\* the session without the row editor, which touches neither loading flag,
\* and with the external classifier out of reach;
\* every request handleUpload and handleSave wait for is answered or fails:
\* the awaits end, and the catch and finally blocks run
\* the answers to a row's classification call when the external classifier
\* cannot be reached
OfflineReplies == {r \in RowReplies : r.ai.kind = "unreachable"}

NextLive ==
  \/ \E id \in FileIds : SelectFile(id)
  \/ \E a \in Accounts : SelectAccount(a)
  \/ HandleUpload
  \/ \E userOk \in BOOLEAN, mapAi \in MapAiOutcomes, replies \in [1..MaxLines -> OfflineReplies] :
       UploadSettle(userOk, mapAi, replies)
  \/ \E index \in 1..MaxLines : HandleRemove(index)
  \/ HandleCancel
  \/ HandleSave
  \/ \E r \in SaveReplies : SaveSettle(r)

SpecLive ==
  /\ Init /\ [][NextLive]_vars
  /\ WF_vars(\E userOk \in BOOLEAN, mapAi \in MapAiOutcomes,
                replies \in [1..MaxLines -> OfflineReplies] :
                UploadSettle(userOk, mapAi, replies))
  /\ WF_vars(\E r \in SaveReplies : SaveSettle(r))

\* the step is handleComplete, called by the preview
CompleteStep == PreviewShown /\ accountId' = ""

====
